---- MODULE Spec2Model ----
(***************************************************************************)
(* Model of the GoodVibes task backend (src/backend/server.py): the task   *)
(* store and its CRUD handlers, the LLM task-decomposition pipeline        *)
(* (analyze_task_with_llm, /process-task, the internal decomposition used  *)
(* by the chat tools, create_task_from_llm), the deadline parsing inlined  *)
(* in those handlers, and the statistics feedback cache.                   *)
(*                                                                         *)
(* Python strings are sequences of one-character strings, so that find,    *)
(* rfind, slicing, replace, json.loads and datetime.fromisoformat are      *)
(* computed on the characters.  A JSON / Python value is a record          *)
(* [k, s, items, keys]: k is the kind, s the characters of a string or the *)
(* digits of a number, items the elements of an array or the values of an  *)
(* object, keys the keys of an object (in insertion order).  Python None   *)
(* is the JSON null.                                                       *)
(***************************************************************************)
EXTENDS Integers, Sequences, FiniteSets, TLC

VARIABLES
    OPENAI_API_KEY,     \* server.py:42  TRUE when the key is configured
    TOGETHER_API_KEY,   \* server.py:38  TRUE when the key is configured
    users,              \* db.users: the identifiers of the stored users
    tasks,              \* db.tasks: the stored task documents, in insertion order
    nextId,             \* source of fresh uuid4 identifiers
    FEEDBACK_CACHE,     \* server.py:67  fingerprint -> [payload, timestamp]
    now,                \* time.time(), in seconds
    call,               \* the last handler call: its name, its inputs, what the LLM did
    resp,               \* what the last handler call returned to its caller
    dl,                 \* the deadline-parsing run: the input value and the three results
    pending_tasks,      \* server.py:188  task-creation requests awaiting the drain
    pending_analyzed_tasks, \* server.py:189  decomposition requests awaiting the drain
    chat_history,       \* db.chat_history: user id -> the stored messages
    req                 \* the chat requests in flight: each one's position and locals

vars == <<OPENAI_API_KEY, TOGETHER_API_KEY, users, tasks, nextId, FEEDBACK_CACHE,
          now, call, resp, dl, pending_tasks, pending_analyzed_tasks, chat_history, req>>

\* the state of the chat endpoint
chat_state == <<pending_tasks, pending_analyzed_tasks, chat_history, req>>

\* no chat request has been made
NoChat ==
    /\ pending_tasks = <<>> /\ pending_analyzed_tasks = <<>>
    /\ chat_history = <<>> /\ req = <<>>

(***************************************************************************)
(* Strings                                                                 *)
(***************************************************************************)
Digits == {"0", "1", "2", "3", "4", "5", "6", "7", "8", "9"}

DigitVal(c) ==
    CASE c = "0" -> 0 [] c = "1" -> 1 [] c = "2" -> 2 [] c = "3" -> 3 [] c = "4" -> 4
      [] c = "5" -> 5 [] c = "6" -> 6 [] c = "7" -> 7 [] c = "8" -> 8 [] c = "9" -> 9

DigitChar(n) ==
    CASE n = 0 -> "0" [] n = 1 -> "1" [] n = 2 -> "2" [] n = 3 -> "3" [] n = 4 -> "4"
      [] n = 5 -> "5" [] n = 6 -> "6" [] n = 7 -> "7" [] n = 8 -> "8" [] n = 9 -> "9"

\* c in s
Contains(s, c) == \E i \in 1..Len(s) : s[i] = c

\* s.find(c): the 0-based index of the first c, or -1
Find(s, c) ==
    IF Contains(s, c)
    THEN (CHOOSE i \in 1..Len(s) : s[i] = c /\ \A j \in 1..(i - 1) : s[j] # c) - 1
    ELSE -1

\* s.rfind(c): the 0-based index of the last c, or -1
RFind(s, c) ==
    IF Contains(s, c)
    THEN (CHOOSE i \in 1..Len(s) : s[i] = c /\ \A j \in (i + 1)..Len(s) : s[j] # c) - 1
    ELSE -1

\* s[a:b] for 0 <= a, 0 <= b (Python slice, 0-based, b exclusive, clamped)
Slice(s, a, b) ==
    LET hi == IF b > Len(s) THEN Len(s) ELSE b
    IN  IF a >= hi THEN <<>> ELSE SubSeq(s, a + 1, hi)

\* s.replace(c, r) for a one-character c
RECURSIVE Replace(_, _, _)
Replace(s, c, r) ==
    IF s = <<>> THEN <<>>
    ELSE (IF Head(s) = c THEN r ELSE <<Head(s)>>) \o Replace(Tail(s), c, r)

S_T235959 == <<"T", "2", "3", ":", "5", "9", ":", "5", "9">>
S_UTC == <<"+", "0", "0", ":", "0", "0">>
S_null == <<"n", "u", "l", "l">>
S_true == <<"t", "r", "u", "e">>
S_false == <<"f", "a", "l", "s", "e">>
S_not_specified == <<"n", "o", "t", " ", "s", "p", "e", "c", "i", "f", "i", "e", "d">>

(***************************************************************************)
(* JSON / Python values                                                    *)
(***************************************************************************)
JV(k, s, items, keys) == [k |-> k, s |-> s, items |-> items, keys |-> keys]
JNull == JV("null", <<>>, <<>>, <<>>)
JBool(b) == JV("bool", IF b THEN S_true ELSE S_false, <<>>, <<>>)
JNum(digits) == JV("num", digits, <<>>, <<>>)
JStr(s) == JV("str", s, <<>>, <<>>)
JArr(items) == JV("arr", <<>>, items, <<>>)
JObj(keys, items) == JV("obj", <<>>, items, keys)

\* bool(v): Python truthiness
Truthy(v) ==
    CASE v.k = "null" -> FALSE
      [] v.k = "bool" -> v.s = S_true
      [] v.k = "num" -> \E i \in 1..Len(v.s) : v.s[i] # "0"
      [] v.k = "str" -> Len(v.s) > 0
      [] v.k = "arr" -> Len(v.items) > 0
      [] v.k = "obj" -> Len(v.items) > 0

HasKey(o, key) == \E i \in 1..Len(o.keys) : o.keys[i] = key

\* o.get(key, default) on a dict o
Get(o, key, default) ==
    IF HasKey(o, key)
    THEN o.items[CHOOSE i \in 1..Len(o.keys) : o.keys[i] = key]
    ELSE default

\* o[key] = v on a dict o: replaces the value of an existing key, else appends
SetKey(o, key, v) ==
    IF HasKey(o, key)
    THEN JObj(o.keys, [i \in 1..Len(o.items) |-> IF o.keys[i] = key THEN v ELSE o.items[i]])
    ELSE JObj(Append(o.keys, key), Append(o.items, v))

(***************************************************************************)
(* json.loads on the characters of a text.  The texts of the model are     *)
(* written over objects, arrays, strings without escapes, unsigned         *)
(* integers, true, false, null and blanks.                                 *)
(***************************************************************************)
Whitespace == {" ", "\n"}

At(t, i) == IF i >= 1 /\ i <= Len(t) THEN t[i] ELSE ""

StartsWith(t, i, w) ==
    /\ i + Len(w) - 1 <= Len(t)
    /\ \A j \in 1..Len(w) : t[i + j - 1] = w[j]

RECURSIVE SkipWs(_, _)
SkipWs(t, i) == IF At(t, i) \in Whitespace THEN SkipWs(t, i + 1) ELSE i

ParseFail == [ok |-> FALSE, v |-> JNull, pos |-> 0]
ParseOk(v, pos) == [ok |-> TRUE, v |-> v, pos |-> pos]

\* a string literal starting at the quote t[i]
ParseString(t, i) ==
    IF At(t, i) # "\"" \/ ~(\E j \in (i + 1)..Len(t) : t[j] = "\"")
    THEN ParseFail
    ELSE LET j == CHOOSE j \in (i + 1)..Len(t) :
                      t[j] = "\"" /\ \A m \in (i + 1)..(j - 1) : t[m] # "\""
         IN  ParseOk(JStr(SubSeq(t, i + 1, j - 1)), j + 1)

RECURSIVE DigitRun(_, _)
DigitRun(t, i) == IF At(t, i) \in Digits THEN DigitRun(t, i + 1) ELSE i

\* an integer literal: 0, or a digit run that does not start with 0
ParseNumber(t, i) ==
    LET j == IF t[i] = "0" THEN i + 1 ELSE DigitRun(t, i)
    IN  ParseOk(JNum(SubSeq(t, i, j - 1)), j)

RECURSIVE ParseValue(_, _), ParseMembers(_, _, _), ParseElements(_, _, _)

ParseValue(t, i) ==
    LET c == At(t, i)
    IN  CASE c = "{" ->
                LET j == SkipWs(t, i + 1)
                IN  IF At(t, j) = "}" THEN ParseOk(JObj(<<>>, <<>>), j + 1)
                    ELSE ParseMembers(t, j, JObj(<<>>, <<>>))
          [] c = "[" ->
                LET j == SkipWs(t, i + 1)
                IN  IF At(t, j) = "]" THEN ParseOk(JArr(<<>>), j + 1)
                    ELSE ParseElements(t, j, <<>>)
          [] c = "\"" -> ParseString(t, i)
          [] c \in Digits -> ParseNumber(t, i)
          [] c = "n" /\ StartsWith(t, i, S_null) -> ParseOk(JNull, i + 4)
          [] c = "t" /\ StartsWith(t, i, S_true) -> ParseOk(JBool(TRUE), i + 4)
          [] c = "f" /\ StartsWith(t, i, S_false) -> ParseOk(JBool(FALSE), i + 5)
          [] OTHER -> ParseFail

\* the members of an object from the key at t[i]; acc holds the members read so far
ParseMembers(t, i, acc) ==
    LET key == ParseString(t, i)
    IN  IF ~key.ok THEN ParseFail
        ELSE LET j == SkipWs(t, key.pos)
             IN  IF At(t, j) # ":" THEN ParseFail
                 ELSE LET val == ParseValue(t, SkipWs(t, j + 1))
                      IN  IF ~val.ok THEN ParseFail
                          ELSE LET m == SkipWs(t, val.pos)
                                   acc2 == SetKey(acc, key.v.s, val.v)
                               IN  CASE At(t, m) = "}" -> ParseOk(acc2, m + 1)
                                     [] At(t, m) = "," -> ParseMembers(t, SkipWs(t, m + 1), acc2)
                                     [] OTHER -> ParseFail

\* the elements of an array from the value at t[i]
ParseElements(t, i, acc) ==
    LET val == ParseValue(t, i)
    IN  IF ~val.ok THEN ParseFail
        ELSE LET m == SkipWs(t, val.pos)
                 acc2 == Append(acc, val.v)
             IN  CASE At(t, m) = "]" -> ParseOk(JArr(acc2), m + 1)
                   [] At(t, m) = "," -> ParseElements(t, SkipWs(t, m + 1), acc2)
                   [] OTHER -> ParseFail

\* json.loads(t): ok = FALSE stands for json.JSONDecodeError
Loads(t) ==
    LET r == ParseValue(t, SkipWs(t, 1))
    IN  IF r.ok /\ SkipWs(t, r.pos) = Len(t) + 1 THEN r ELSE ParseFail

(***************************************************************************)
(* The text an LLM writes for a value: json.dumps with its default         *)
(* separators.                                                             *)
(***************************************************************************)
Quote(s) == <<"\"">> \o s \o <<"\"">>

RECURSIVE Dumps(_), DumpItems(_), DumpMembers(_, _)
Dumps(v) ==
    CASE v.k = "null" -> S_null
      [] v.k = "bool" -> v.s
      [] v.k = "num" -> v.s
      [] v.k = "str" -> Quote(v.s)
      [] v.k = "arr" -> <<"[">> \o DumpItems(v.items) \o <<"]">>
      [] v.k = "obj" -> <<"{">> \o DumpMembers(v.keys, v.items) \o <<"}">>

DumpItems(items) ==
    IF items = <<>> THEN <<>>
    ELSE Dumps(Head(items))
         \o (IF Len(items) > 1 THEN <<",", " ">> \o DumpItems(Tail(items)) ELSE <<>>)

DumpMembers(keys, items) ==
    IF keys = <<>> THEN <<>>
    ELSE Quote(Head(keys)) \o <<":", " ">> \o Dumps(Head(items))
         \o (IF Len(keys) > 1 THEN <<",", " ">> \o DumpMembers(Tail(keys), Tail(items))
             ELSE <<>>)

(***************************************************************************)
(* datetime.fromisoformat on the characters of a string: YYYY-MM-DD, then  *)
(* optionally one separator character, HH[:MM[:SS]] and a +HH:MM or -HH:MM *)
(* offset.  ok = FALSE stands for ValueError.  An instant is naive, or     *)
(* aware with its UTC offset in minutes.                                   *)
(***************************************************************************)
NoDeadline ==
    [ok |-> FALSE, year |-> 0, month |-> 0, day |-> 0, hour |-> 0, minute |-> 0,
     second |-> 0, aware |-> FALSE, offset |-> 0]

Instant(y, mo, d, h, mi, sec, aware, off) ==
    [ok |-> TRUE, year |-> y, month |-> mo, day |-> d, hour |-> h, minute |-> mi,
     second |-> sec, aware |-> aware, offset |-> off]

IsLeap(y) == (y % 4 = 0 /\ y % 100 # 0) \/ y % 400 = 0

DaysInMonth(y, m) ==
    CASE m \in {1, 3, 5, 7, 8, 10, 12} -> 31
      [] m \in {4, 6, 9, 11} -> 30
      [] m = 2 -> IF IsLeap(y) THEN 29 ELSE 28
      [] OTHER -> 0

\* the value of the n digits s[i..i+n-1], or -1 when they are not n digits
RECURSIVE DigitsAt(_, _, _)
DigitsAt(s, i, n) ==
    IF n = 0 THEN 0
    ELSE IF ~(At(s, i + n - 1) \in Digits) THEN -1
    ELSE LET rest == DigitsAt(s, i, n - 1)
         IN  IF rest < 0 THEN -1 ELSE 10 * rest + DigitVal(s[i + n - 1])

\* HH[:MM[:SS]] as [ok, h, m, s], with no range check
ParseHhMmSs(ts) ==
    LET bad == [ok |-> FALSE, h |-> 0, m |-> 0, s |-> 0]
        h == DigitsAt(ts, 1, 2)
        m == DigitsAt(ts, 4, 2)
        sec == DigitsAt(ts, 7, 2)
    IN  IF h < 0 THEN bad
        ELSE IF Len(ts) = 2 THEN [ok |-> TRUE, h |-> h, m |-> 0, s |-> 0]
        ELSE IF ts[3] # ":" \/ m < 0 THEN bad
        ELSE IF Len(ts) = 5 THEN [ok |-> TRUE, h |-> h, m |-> m, s |-> 0]
        ELSE IF ts[6] # ":" \/ sec < 0 THEN bad
        ELSE IF Len(ts) = 8 THEN [ok |-> TRUE, h |-> h, m |-> m, s |-> sec]
        ELSE bad

fromisoformat(s) ==
    LET y == DigitsAt(s, 1, 4)
        mo == DigitsAt(s, 6, 2)
        d == DigitsAt(s, 9, 2)
        dateOk == /\ Len(s) >= 10
                  /\ s[5] = "-" /\ s[8] = "-"
                  /\ y >= 1 /\ mo >= 1 /\ mo <= 12
                  /\ d >= 1 /\ d <= DaysInMonth(y, mo)
        tstr == Slice(s, 11, Len(s))
        \* tz_pos = tstr.find('-') + 1 or tstr.find('+') + 1
        tzPos == IF Find(tstr, "-") + 1 # 0 THEN Find(tstr, "-") + 1 ELSE Find(tstr, "+") + 1
        timestr == IF tzPos > 0 THEN Slice(tstr, 0, tzPos - 1) ELSE tstr
        tzstr == Slice(tstr, tzPos, Len(tstr))
        t == ParseHhMmSs(timestr)
        tz == ParseHhMmSs(tzstr)
        timeOk == t.ok /\ t.h <= 23 /\ t.m <= 59 /\ t.s <= 59
        tzOk == Len(tzstr) = 5 /\ tz.ok /\ tz.h * 60 + tz.m < 1440
        sign == IF tstr[tzPos] = "-" THEN -1 ELSE 1
    IN  IF ~dateOk THEN NoDeadline
        ELSE IF Len(s) = 10 THEN Instant(y, mo, d, 0, 0, 0, FALSE, 0)
        ELSE IF ~timeOk THEN NoDeadline
        ELSE IF tzPos = 0 THEN Instant(y, mo, d, t.h, t.m, t.s, FALSE, 0)
        ELSE IF ~tzOk THEN NoDeadline
        ELSE Instant(y, mo, d, t.h, t.m, t.s, TRUE, sign * (tz.h * 60 + tz.m))

(***************************************************************************)
(* The deadline parsing inlined in the handlers.  Each try block catches   *)
(* what its body raises: a value that is not a string raises (TypeError on *)
(* 'T' in a number or a boolean, AttributeError on .replace of a list,     *)
(* ValueError from fromisoformat on the f-string of a list or a dict), a   *)
(* string that fromisoformat rejects raises ValueError; both leave the     *)
(* deadline None.                                                          *)
(***************************************************************************)
S_deadline == <<"d", "e", "a", "d", "l", "i", "n", "e">>

\* a parser that reads an unparseable string as the end of 2025-01-01
ProcessTaskDeadline_Lenient(task_analysis) ==
    LET d == Get(task_analysis, S_deadline, JNull)
        parsed == IF Contains(d.s, "T") THEN fromisoformat(Replace(d.s, "Z", S_UTC))
                  ELSE fromisoformat(d.s \o S_T235959)
    IN  IF Truthy(d) /\ d # JStr(S_not_specified) /\ d # JStr(S_null)
        THEN IF d.k # "str" THEN NoDeadline
             ELSE IF parsed.ok THEN parsed
             ELSE Instant(2025, 1, 1, 23, 59, 59, FALSE, 0)
        ELSE NoDeadline

\* process_natural_language_task: the task's deadline
ProcessTaskDeadline(task_analysis) ==
    LET date_str == Get(task_analysis, S_deadline, JNull)
    IN  IF Truthy(date_str) /\ date_str # JStr(S_not_specified) /\ date_str # JStr(S_null)
        THEN IF date_str.k # "str" THEN NoDeadline
             ELSE IF Contains(date_str.s, "T")
                  THEN fromisoformat(Replace(date_str.s, "Z", S_UTC))
                  ELSE fromisoformat(date_str.s \o S_T235959)
        ELSE NoDeadline

\* process_natural_language_task: a subtask's deadline
ProcessSubtaskDeadline(subtask_item) ==
    LET subtask_date_str == Get(subtask_item, S_deadline, JNull)
    IN  IF Truthy(subtask_date_str)
        THEN IF subtask_date_str.k # "str" THEN NoDeadline
             ELSE IF Contains(subtask_date_str.s, "T")
                  THEN fromisoformat(Replace(subtask_date_str.s, "Z", S_UTC))
                  ELSE fromisoformat(subtask_date_str.s \o S_T235959)
        ELSE NoDeadline

\* process_natural_language_task_internal: the task's deadline
InternalTaskDeadline(task_analysis) ==
    LET date_str == Get(task_analysis, S_deadline, JNull)
    IN  IF Truthy(date_str) /\ date_str # JStr(S_not_specified) /\ date_str # JStr(S_null)
        THEN IF date_str.k # "str" THEN NoDeadline
             ELSE IF Contains(date_str.s, "T")
                  THEN fromisoformat(Replace(date_str.s, "Z", S_UTC))
                  ELSE fromisoformat(date_str.s \o S_T235959)
        ELSE NoDeadline

\* process_natural_language_task_internal: a subtask's deadline
InternalSubtaskDeadline(subtask_item) ==
    LET subtask_date_str == Get(subtask_item, S_deadline, JNull)
    IN  IF Truthy(subtask_date_str)
        THEN IF subtask_date_str.k # "str" THEN NoDeadline
             ELSE IF Contains(subtask_date_str.s, "T")
                  THEN fromisoformat(Replace(subtask_date_str.s, "Z", S_UTC))
                  ELSE fromisoformat(subtask_date_str.s \o S_T235959)
        ELSE NoDeadline

\* create_task_from_llm's parsing without the end-of-day suffix
CreateTaskDeadline_Midnight(task_data) ==
    LET deadline_str == Get(task_data, S_deadline, JNull)
    IN  IF Truthy(deadline_str)
        THEN IF deadline_str.k # "str" THEN NoDeadline
             ELSE fromisoformat(Replace(deadline_str.s, "Z", S_UTC))
        ELSE NoDeadline

\* create_task_from_llm: the task's deadline
CreateTaskDeadline(task_data) ==
    LET deadline_str == Get(task_data, S_deadline, JNull)
    IN  IF Truthy(deadline_str)
        THEN IF deadline_str.k # "str" THEN NoDeadline
             ELSE IF Contains(deadline_str.s, "T")
                  THEN fromisoformat(Replace(deadline_str.s, "Z", S_UTC))
                  ELSE fromisoformat(deadline_str.s \o S_T235959)
        ELSE NoDeadline

(***************************************************************************)
(* analyze_task_with_llm                                                   *)
(***************************************************************************)
S_title == <<"t", "i", "t", "l", "e">>
S_subtasks == <<"s", "u", "b", "t", "a", "s", "k", "s">>
S_priority == <<"p", "r", "i", "o", "r", "i", "t", "y">>
S_emotional_support ==
    <<"e", "m", "o", "t", "i", "o", "n", "a", "l", "_", "s", "u", "p", "p", "o", "r",
      "t">>
S_description == <<"d", "e", "s", "c", "r", "i", "p", "t", "i", "o", "n">>
S_medium == <<"m", "e", "d", "i", "u", "m">>
S_high == <<"h", "i", "g", "h">>
S_Review_task_details ==
    <<"R", "e", "v", "i", "e", "w", " ", "t", "a", "s", "k", " ", "d", "e", "t", "a",
      "i", "l", "s">>
S_Lets_start ==
    <<"L", "e", "t", "'", "s", " ", "s", "t", "a", "r", "t", " ", "b", "y", " ", "c",
      "l", "a", "r", "i", "f", "y", "i", "n", "g", " ", "w", "h", "a", "t", " ", "n",
      "e", "e", "d", "s", " ", "t", "o", " ", "b", "e", " ", "d", "o", "n", "e", ".">>

\* the fallback response, returned at three places with the same content
FallbackAnalysis(text) ==
    JObj(<<S_title, S_subtasks, S_deadline, S_priority, S_emotional_support>>,
         <<JStr(text), JArr(<<JStr(S_Review_task_details)>>), JNull, JStr(S_medium),
           JStr(S_Lets_start)>>)

\* What the LLM provider does with one completion call: the call raises (network
\* error, timeout, HTTP error), or it returns a reply with this content.
LlmRaises == [kind |-> "raise", text |-> <<>>]
LlmReplies(t) == [kind |-> "reply", text |-> t]

\* the extraction with the direct parse left out: only the brace slice is tried
ExtractAnalysis_SliceOnly(text, generated_text) ==
    LET json_start == Find(generated_text, "{")
        json_end == RFind(generated_text, "}") + 1
        sliced == Loads(Slice(generated_text, json_start, json_end))
    IN  IF json_start >= 0 /\ json_end > json_start
        THEN IF sliced.ok /\ sliced.v.k = "obj" THEN sliced.v ELSE FallbackAnalysis(text)
        ELSE JNull

\* the extraction with the slice ending before the last brace (rfind without + 1)
ExtractAnalysis_SliceOffByOne(text, generated_text) ==
    LET direct == Loads(generated_text)
        json_start == Find(generated_text, "{")
        json_end == RFind(generated_text, "}")
        sliced == Loads(Slice(generated_text, json_start, json_end))
    IN  IF direct.ok
        THEN IF direct.v.k = "obj" THEN direct.v ELSE FallbackAnalysis(text)
        ELSE IF json_start >= 0 /\ json_end > json_start
             THEN IF sliced.ok /\ sliced.v.k = "obj" THEN sliced.v
                  ELSE FallbackAnalysis(text)
             ELSE JNull

\* "Parse the JSON from the generated text".  task_data.keys() in the log line raises
\* AttributeError when the parsed value is no dict; on the direct path that is not a
\* JSONDecodeError and reaches the outer except Exception, on the slice path it is
\* caught by the bare except: the fallback either way.  When the slice condition is
\* false the inner try ends without a return and the function returns None.
ExtractAnalysis(text, generated_text) ==
    LET direct == Loads(generated_text)
        json_start == Find(generated_text, "{")
        json_end == RFind(generated_text, "}") + 1
        sliced == Loads(Slice(generated_text, json_start, json_end))
    IN  IF direct.ok
        THEN IF direct.v.k = "obj" THEN direct.v ELSE FallbackAnalysis(text)
        ELSE IF json_start >= 0 /\ json_end > json_start
             THEN IF sliced.ok /\ sliced.v.k = "obj" THEN sliced.v
                  ELSE FallbackAnalysis(text)
             ELSE JNull

\* analyze_task_with_llm(text) when the provider does llm: the returned value and the
\* number of completion calls made
analyze_task_with_llm(text, llm) ==
    IF ~OPENAI_API_KEY
    THEN [ret |-> FallbackAnalysis(text), llm_calls |-> 0]
    ELSE IF llm.kind = "raise"
         THEN [ret |-> FallbackAnalysis(text), llm_calls |-> 1]
         ELSE [ret |-> ExtractAnalysis(text, llm.text), llm_calls |-> 1]

(***************************************************************************)
(* Task and Subtask documents.  created_at and updated_at are left out: no *)
(* handler modelled here reads them.  A pydantic str field accepts a       *)
(* string; an Optional[str] field accepts a string or None; the values of  *)
(* the model are strings, None, and values no str field accepts.           *)
(***************************************************************************)
S_None == <<"N", "o", "n", "e">>
S_True == <<"T", "r", "u", "e">>
S_False == <<"F", "a", "l", "s", "e">>

IsStr(v) == v.k = "str"
IsOptStr(v) == v.k \in {"str", "null"}

\* repr(v) in place of str(v): a string comes out in quotes
PyStr_Quoted(v) ==
    CASE v.k = "str" -> <<"'">> \o v.s \o <<"'">>
      [] v.k = "num" -> v.s
      [] v.k = "null" -> S_None
      [] v.k = "bool" -> IF v.s = S_true THEN S_True ELSE S_False

\* str(v) for the values that reach it
PyStr(v) ==
    CASE v.k = "str" -> v.s
      [] v.k = "num" -> v.s
      [] v.k = "null" -> S_None
      [] v.k = "bool" -> IF v.s = S_true THEN S_True ELSE S_False

\* a Subtask whose __init__ leaves a missing title as None
NewSubtask_NoTitleDefault(id, task_id, title, description, deadline, order) ==
    [id |-> id, task_id |-> task_id, title |-> title, description |-> description,
     completed |-> FALSE, deadline |-> deadline, order |-> order]

\* Subtask(...): __init__ puts the description in place of a missing or None title
NewSubtask(id, task_id, title, description, deadline, order) ==
    [id |-> id, task_id |-> task_id,
     title |-> IF title.k = "null" THEN description ELSE title,
     description |-> description, completed |-> FALSE, deadline |-> deadline,
     order |-> order]

\* Subtask(...) passes validation
SubtaskValid(title, description) ==
    IsStr(description) /\ IsOptStr(IF title.k = "null" THEN description ELSE title)

NewTask(id, user_id, title, description, deadline, priority, emotional_support) ==
    [id |-> id, user_id |-> user_id, title |-> title, description |-> description,
     deadline |-> deadline, priority |-> priority, completed |-> FALSE,
     subtasks |-> <<>>, emotional_support |-> emotional_support]

\* Task(...) passes validation
TaskValid(title, description, priority, emotional_support) ==
    IsStr(title) /\ IsOptStr(description) /\ IsStr(priority) /\ IsOptStr(emotional_support)

\* what a for loop over v yields, for a list, a str (its characters) or a dict (its keys)
Iterate(v) ==
    CASE v.k = "arr" -> v.items
      [] v.k = "str" -> [i \in 1..Len(v.s) |-> JStr(<<v.s[i]>>)]
      [] v.k = "obj" -> [i \in 1..Len(v.keys) |-> JStr(v.keys[i])]

\* len(v) and enumerate(v) raise TypeError
NotIterable(v) == v.k \in {"null", "num", "bool"}

(***************************************************************************)
(* POST /process-task                                                      *)
(***************************************************************************)
\* the loop with order counted over the subtasks created so far
RECURSIVE ProcessSubtasks_OrderAmongCreated(_, _, _, _, _)
ProcessSubtasks_OrderAmongCreated(items, i, task_id, firstId, acc) ==
    IF i > Len(items) THEN acc
    ELSE LET subtask_item == items[i]
             isDict == subtask_item.k = "obj"
             subtask_desc == IF isDict THEN Get(subtask_item, S_description, JStr(<<>>))
                             ELSE JStr(PyStr(subtask_item))
             subtask_deadline == IF isDict THEN ProcessSubtaskDeadline(subtask_item)
                                 ELSE NoDeadline
             subtask_title == IF isDict THEN Get(subtask_item, S_title, JNull)
                              ELSE subtask_desc
             subtask == NewSubtask(firstId + Len(acc), task_id, subtask_title,
                                   subtask_desc, subtask_deadline, Len(acc))
         IN  ProcessSubtasks_OrderAmongCreated(items, i + 1, task_id, firstId,
                             IF SubtaskValid(subtask_title, subtask_desc)
                             THEN Append(acc, subtask) ELSE acc)

\* the loop "for i, subtask_item in enumerate(subtasks_data)": an item whose Subtask
\* fails validation is logged and skipped; i is the position in the array.  Each new
\* Subtask takes the next fresh identifier.
RECURSIVE ProcessSubtasks(_, _, _, _, _)
ProcessSubtasks(items, i, task_id, firstId, acc) ==
    IF i > Len(items) THEN acc
    ELSE LET subtask_item == items[i]
             isDict == subtask_item.k = "obj"
             subtask_desc == IF isDict THEN Get(subtask_item, S_description, JStr(<<>>))
                             ELSE JStr(PyStr(subtask_item))
             subtask_deadline == IF isDict THEN ProcessSubtaskDeadline(subtask_item)
                                 ELSE NoDeadline
             subtask_title == IF isDict THEN Get(subtask_item, S_title, JNull)
                              ELSE subtask_desc
             subtask == NewSubtask(firstId + Len(acc), task_id, subtask_title,
                                   subtask_desc, subtask_deadline, i - 1)
         IN  ProcessSubtasks(items, i + 1, task_id, firstId,
                             IF SubtaskValid(subtask_title, subtask_desc)
                             THEN Append(acc, subtask) ELSE acc)

\* The handler, as [status, body, tasks, nextId, analyzed, analysis, llm_calls]:
\* the HTTP status and the returned Task, the store and the identifier source after
\* the call, whether analyze_task_with_llm was called, what it returned, and the
\* completion calls made.  Status "500" is an exception that leaves the handler.
process_natural_language_task(input_data, llm) ==
    LET out(status, body, store, next, called, analysis, n) ==
            [status |-> status, body |-> body, tasks |-> store, nextId |-> next,
             analyzed |-> called, analysis |-> analysis, llm_calls |-> n]
        plain == NewTask(nextId, input_data.user_id, JStr(input_data.text),
                         JStr(input_data.text), NoDeadline, JStr(S_medium), JNull)
        failed(a) == out("500", <<>>, tasks, nextId, TRUE, a.ret, a.llm_calls)
        title(a) == Get(a.ret, S_title, JStr(input_data.text))
        priority(a) == Get(a.ret, S_priority, JStr(S_medium))
        emotional_support(a) == Get(a.ret, S_emotional_support, JStr(<<>>))
        subtasks_data(a) == Get(a.ret, S_subtasks, JArr(<<>>))
        \* task.dict() inserted and the Task returned
        inserted(a, task) ==
            out("200", <<task>>, Append(tasks, task), nextId + 1 + Len(task.subtasks),
                TRUE, a.ret, a.llm_calls)
        created(a, deadline, subtasks) ==
            inserted(a, [NewTask(nextId, input_data.user_id, title(a),
                                 JStr(input_data.text), deadline, priority(a),
                                 emotional_support(a))
                         EXCEPT !.subtasks = subtasks])
        analyzed(a) ==
            IF a.ret.k # "obj"
            THEN failed(a)  \* AttributeError: 'NoneType' object has no attribute 'get'
            ELSE IF ~TaskValid(title(a), JStr(input_data.text), priority(a),
                               emotional_support(a))
            THEN failed(a)  \* pydantic ValidationError
            ELSE IF NotIterable(subtasks_data(a))
            THEN failed(a)  \* TypeError: object of type 'NoneType' has no len()
            ELSE created(a, ProcessTaskDeadline(a.ret),
                         ProcessSubtasks(Iterate(subtasks_data(a)), 1, nextId,
                                         nextId + 1, <<>>))
    IN  IF input_data.user_id \notin users
        THEN out("404", <<>>, tasks, nextId, FALSE, JNull, 0)
        ELSE IF ~OPENAI_API_KEY /\ ~TOGETHER_API_KEY
        THEN out("200", <<plain>>, Append(tasks, plain), nextId + 1, FALSE, JNull, 0)
        ELSE analyzed(analyze_task_with_llm(input_data.text, llm))

(***************************************************************************)
(* process_natural_language_task_internal (the chat decompose path)        *)
(***************************************************************************)
\* The loop over the subtasks: no title is passed to Subtask, and no try surrounds
\* one item, so an item whose Subtask fails validation raises out of the loop
\* (ok = FALSE).
RECURSIVE InternalSubtasks(_, _, _, _, _)
InternalSubtasks(items, i, task_id, firstId, acc) ==
    IF i > Len(items) THEN [ok |-> TRUE, subtasks |-> acc]
    ELSE LET subtask_item == items[i]
             isDict == subtask_item.k = "obj"
             subtask_desc == IF isDict THEN Get(subtask_item, S_description, JStr(<<>>))
                             ELSE JStr(PyStr(subtask_item))
             subtask_deadline == IF isDict THEN InternalSubtaskDeadline(subtask_item)
                                 ELSE NoDeadline
             subtask == NewSubtask(firstId + Len(acc), task_id, JNull, subtask_desc,
                                   subtask_deadline, i - 1)
         IN  IF SubtaskValid(JNull, subtask_desc)
             THEN InternalSubtasks(items, i + 1, task_id, firstId, Append(acc, subtask))
             ELSE [ok |-> FALSE, subtasks |-> acc]

\* The function, as [status, body, tasks, nextId, analyzed, analysis, llm_calls]:
\* status "success" for the dict with success = True (body: the inserted Task),
\* "error" for a dict with an error key.  The whole body is inside try / except
\* Exception, so nothing raises to the caller.
process_natural_language_task_internal(text, user_id, llm) ==
    LET out(status, body, store, next, called, analysis, n) ==
            [status |-> status, body |-> body, tasks |-> store, nextId |-> next,
             analyzed |-> called, analysis |-> analysis, llm_calls |-> n]
        failed(a) == out("error", <<>>, tasks, nextId, TRUE, a.ret, a.llm_calls)
        title(a) == Get(a.ret, S_title, JStr(text))
        priority(a) == Get(a.ret, S_priority, JStr(S_medium))
        emotional_support(a) == Get(a.ret, S_emotional_support, JStr(<<>>))
        subtasks_data(a) == Get(a.ret, S_subtasks, JArr(<<>>))
        inserted(a, task) ==
            out("success", <<task>>, Append(tasks, task),
                nextId + 1 + Len(task.subtasks), TRUE, a.ret, a.llm_calls)
        created(a, deadline, built) ==
            IF ~built.ok THEN failed(a)
            ELSE inserted(a, [NewTask(nextId, user_id, title(a), JStr(text), deadline,
                                      priority(a), emotional_support(a))
                              EXCEPT !.subtasks = built.subtasks])
        analyzed(a) ==
            IF a.ret.k # "obj" THEN failed(a)
            ELSE IF ~TaskValid(title(a), JStr(text), priority(a), emotional_support(a))
            THEN failed(a)
            ELSE IF NotIterable(subtasks_data(a)) THEN failed(a)
            ELSE created(a, InternalTaskDeadline(a.ret),
                         InternalSubtasks(Iterate(subtasks_data(a)), 1, nextId,
                                          nextId + 1, <<>>))
    IN  IF user_id \notin users
        THEN out("error", <<>>, tasks, nextId, FALSE, JNull, 0)
        ELSE analyzed(analyze_task_with_llm(text, llm))

(***************************************************************************)
(* generate_emotional_support and create_task_from_llm                     *)
(***************************************************************************)
S_default_support ==
    <<"Y", "o", "u", "'", "r", "e", " ", "m", "a", "k", "i", "n", "g", " ", "g", "r",
      "e", "a", "t", " ", "p", "r", "o", "g", "r", "e", "s", "s", "!", " ", "K", "e",
      "e", "p", " ", "g", "o", "i", "n", "g", ",", " ", "y", "o", "u", "'", "v", "e",
      " ", "g", "o", "t", " ", "t", "h", "i", "s", ".">>

\* s.strip()
RECURSIVE LStrip(_), RStrip(_)
LStrip(s) == IF s # <<>> /\ Head(s) \in Whitespace THEN LStrip(Tail(s)) ELSE s
RStrip(s) ==
    IF s # <<>> /\ s[Len(s)] \in Whitespace THEN RStrip(SubSeq(s, 1, Len(s) - 1)) ELSE s
Strip(s) == RStrip(LStrip(s))

\* generate_emotional_support, as [raised, message, llm_calls].  With a deadline,
\* (deadline - datetime.utcnow()) is computed before any try: utcnow() is naive, so
\* an aware deadline raises TypeError out of the function.
generate_emotional_support(task_title, deadline, llm) ==
    IF deadline.ok /\ deadline.aware
    THEN [raised |-> TRUE, message |-> JNull, llm_calls |-> 0]
    ELSE IF ~OPENAI_API_KEY
    THEN [raised |-> FALSE, message |-> JStr(S_default_support), llm_calls |-> 0]
    ELSE IF llm.kind = "raise"
    THEN [raised |-> FALSE, message |-> JStr(S_default_support), llm_calls |-> 1]
    ELSE [raised |-> FALSE, message |-> JStr(Strip(llm.text)), llm_calls |-> 1]

\* create_task_from_llm, as [status, body, tasks, nextId, analyzed, analysis,
\* llm_calls] (analysis: the task_data it was given).  The whole body is inside
\* try / except Exception.
create_task_from_llm(task_data, user_id, llm) ==
    LET out(status, body, store, next, n) ==
            [status |-> status, body |-> body, tasks |-> store, nextId |-> next,
             analyzed |-> FALSE, analysis |-> task_data, llm_calls |-> n]
        failed == out("error", <<>>, tasks, nextId, 0)
        title == Get(task_data, S_title, JNull)
        description == Get(task_data, S_description, JNull)
        priority == Get(task_data, S_priority, JStr(S_medium))
        inserted(task, n) == out("success", <<task>>, Append(tasks, task), nextId + 1, n)
        supported(deadline, support) ==
            IF support.raised THEN failed
            ELSE inserted(NewTask(nextId, user_id, title, description, deadline,
                                  priority, support.message), support.llm_calls)
        parsed(deadline) ==
            supported(deadline, generate_emotional_support(title, deadline, llm))
    IN  IF user_id \notin users THEN failed
        ELSE IF ~HasKey(task_data, S_title) THEN failed
        ELSE IF ~TaskValid(title, description, priority, JNull) THEN failed
        ELSE parsed(CreateTaskDeadline(task_data))

(***************************************************************************)
(* Deadline values.  An LLM (or the chat tool's caller) writes a date as   *)
(* YYYY-MM-DD and a date with a time as YYYY-MM-DDTHH:MM[:SS][Z]; the      *)
(* components below include ones that make no calendar date or time.       *)
(***************************************************************************)
Pad2(n) == <<DigitChar(n \div 10), DigitChar(n % 10)>>
Pad4(n) == Pad2(n \div 100) \o Pad2(n % 100)

FormatDate(y, m, d) == Pad4(y) \o <<"-">> \o Pad2(m) \o <<"-">> \o Pad2(d)

\* sec = -1: no seconds written
FormatDateTime(y, m, d, h, mi, sec, z) ==
    FormatDate(y, m, d) \o <<"T">> \o Pad2(h) \o <<":">> \o Pad2(mi)
    \o (IF sec >= 0 THEN <<":">> \o Pad2(sec) ELSE <<>>)
    \o (IF z THEN <<"Z">> ELSE <<>>)

Years == {2024, 2025}
Months == {2, 6, 12, 13}
Days == {1, 29, 30, 31}
Hours == {0, 17, 23, 24}
Minutes == {0, 59, 60}
Seconds == {-1, 0, 59}

ValidDate(y, m, d) == m >= 1 /\ m <= 12 /\ d >= 1 /\ d <= DaysInMonth(y, m)
ValidTime(h, mi, sec) == h <= 23 /\ mi <= 59 /\ sec <= 59

\* strings that are neither form
MalformedDeadlines ==
    {<<"t", "o", "m", "o", "r", "r", "o", "w">>,
     <<"T", "o", "m", "o", "r", "r", "o", "w">>,
     <<"n", "e", "x", "t", " ", "F", "r", "i", "d", "a", "y">>,
     <<"2", "0", "2", "5", "-", "1", "3", "-", "0", "1">>,
     <<"2", "0", "2", "5", "/", "0", "6", "/", "0", "6">>,
     <<"0", "6", "-", "0", "6", "-", "2", "0", "2", "5">>,
     <<"2", "0", "2", "5", "-", "6", "-", "6">>,
     <<"2", "0", "2", "5", "-", "0", "6", "-", "0", "6", " ", "1", "7", ":", "0", "0">>,
     <<"2", "0", "2", "5", "-", "0", "6", "-", "0", "6", "t", "1", "7", ":", "0", "0">>,
     <<"2", "0", "2", "5", "-", "0", "6", "-", "0", "6", "T", "1", "7", ":", "0", "0", "Z", "Z">>,
     <<"2", "0", "2", "5", "-", "0", "6", "-", "0", "6", "T">>,
     <<"2", "0", "2", "5", "-", "0", "6", "-", "0", "6", "T", "5", "p", "m">>,
     <<"T", "B", "D">>}

\* values that are no usable deadline: None, the literal tokens, the empty string,
\* malformed strings, and values that are no string
NoDeadlineValues ==
    {JNull, JStr(S_null), JStr(S_not_specified), JStr(<<>>), JNum(<<"5">>), JNum(<<"0">>),
     JBool(TRUE), JArr(<<>>)}
    \cup {JStr(m) : m \in MalformedDeadlines}

\* where a deadline value of the deadline-parsing runs comes from
DeadlineSources ==
    [form : {"date"}, y : Years, m : Months, d : Days, h : {0}, mi : {0}, sec : {-1},
     z : {FALSE}, raw : {JNull}]
    \cup [form : {"datetime"}, y : Years, m : Months, d : Days, h : Hours, mi : Minutes,
          sec : Seconds, z : BOOLEAN, raw : {JNull}]
    \cup [form : {"other"}, y : {0}, m : {0}, d : {0}, h : {0}, mi : {0}, sec : {-1},
          z : {FALSE}, raw : NoDeadlineValues]

DeadlineValue(src) ==
    CASE src.form = "date" -> JStr(FormatDate(src.y, src.m, src.d))
      [] src.form = "datetime" ->
            JStr(FormatDateTime(src.y, src.m, src.d, src.h, src.mi, src.sec, src.z))
      [] src.form = "other" -> src.raw

\* the five places that parse a deadline
DeadlineCopies ==
    {"process_task", "process_subtask", "internal_task", "internal_subtask", "create_task"}

\* the dict a copy reads its "deadline" key from
WithDeadline(v) == JObj(<<S_deadline>>, <<v>>)

RunCopy(c, v) ==
    CASE c = "process_task" -> ProcessTaskDeadline(WithDeadline(v))
      [] c = "process_subtask" -> ProcessSubtaskDeadline(WithDeadline(v))
      [] c = "internal_task" -> InternalTaskDeadline(WithDeadline(v))
      [] c = "internal_subtask" -> InternalSubtaskDeadline(WithDeadline(v))
      [] c = "create_task" -> CreateTaskDeadline(WithDeadline(v))

Idle == [handler |-> "none"]

DeadlineInit ==
    /\ OPENAI_API_KEY = TRUE /\ TOGETHER_API_KEY = TRUE
    /\ users = {} /\ tasks = <<>> /\ nextId = 1
    /\ FEEDBACK_CACHE = <<>> /\ now = 0
    /\ NoChat
    /\ call = Idle /\ resp = Idle
    /\ \E src \in DeadlineSources :
          dl = [src |-> src, v |-> DeadlineValue(src), ran |-> {},
                out |-> [c \in DeadlineCopies |-> NoDeadline]]

\* one copy parses the value.  task_data["deadline"] of create_task_from_llm is a
\* stripped non-empty string or None (create_task_sync), never another value.
ParseDeadline(c) ==
    /\ c \notin dl.ran
    /\ c = "create_task" => dl.v.k \in {"str", "null"} /\ dl.v # JStr(<<>>)
    /\ dl' = [dl EXCEPT !.ran = @ \cup {c}, !.out[c] = RunCopy(c, dl.v)]
    /\ UNCHANGED <<chat_state, OPENAI_API_KEY, TOGETHER_API_KEY, users, tasks, nextId,
                   FEEDBACK_CACHE, now, call, resp>>

DeadlineNext == \E c \in DeadlineCopies : ParseDeadline(c)

SpecDeadline == DeadlineInit /\ [][DeadlineNext]_vars

\* C5: every copy that has parsed a date-only string YYYY-MM-DD of a calendar date
\* holds the naive instant 23:59:59 of that date; every copy that has parsed
\* YYYY-MM-DDTHH:MM[:SS][Z] of a calendar date and a time of day holds that instant
\* (seconds 0 when none are written), aware with offset +00:00 when the Z is
\* written and naive otherwise; so the copies agree on every such string.
C5_DeadlineForms ==
    LET src == dl.src
        expected ==
            IF src.form = "date"
            THEN Instant(src.y, src.m, src.d, 23, 59, 59, FALSE, 0)
            ELSE Instant(src.y, src.m, src.d, src.h, src.mi,
                         IF src.sec < 0 THEN 0 ELSE src.sec, src.z, 0)
    IN  (/\ src.form \in {"date", "datetime"}
         /\ ValidDate(src.y, src.m, src.d)
         /\ ValidTime(src.h, src.mi, src.sec))
        => /\ \A c \in dl.ran : dl.out[c] = expected
           /\ \A c1, c2 \in dl.ran : dl.out[c1] = dl.out[c2]

\* all five copies have parsed a string with seconds and a trailing Z
C5_Witness ==
    /\ dl.ran = DeadlineCopies
    /\ dl.src.form = "datetime" /\ dl.src.z /\ dl.src.sec = 59
    /\ ValidDate(dl.src.y, dl.src.m, dl.src.d)
    /\ ValidTime(dl.src.h, dl.src.mi, dl.src.sec)
    /\ dl.out["create_task"].aware /\ dl.out["create_task"].second = 59

(***************************************************************************)
(* What the LLM replies: analysis objects in the shape the prompt asks     *)
(* for, other JSON values, and texts that are no JSON, with or without     *)
(* text around them.                                                       *)
(***************************************************************************)
S_Party == <<"P", "a", "r", "t", "y">>
S_Plan == <<"P", "l", "a", "n">>
S_Book == <<"B", "o", "o", "k">>
S_Venue == <<"V", "e", "n", "u", "e">>
S_Invite == <<"I", "n", "v", "i", "t", "e">>
S_Go == <<"G", "o">>
S_urgent == <<"u", "r", "g", "e", "n", "t">>

\* an analysis object from its five fields, each <<>> (key absent) or <<value>>
MkAnalysis(title, subtasks, deadline, priority, emotional_support) ==
    LET add(o, key, opt) == IF opt = <<>> THEN o ELSE SetKey(o, key, opt[1])
    IN  add(add(add(add(add(JObj(<<>>, <<>>), S_title, title), S_subtasks, subtasks),
                    S_deadline, deadline), S_priority, priority),
            S_emotional_support, emotional_support)

\* a subtask object from its three fields, each <<>> (key absent) or <<value>>
MkSubtask(title, description, deadline) ==
    LET add(o, key, opt) == IF opt = <<>> THEN o ELSE SetKey(o, key, opt[1])
    IN  add(add(add(JObj(<<>>, <<>>), S_title, title), S_description, description),
            S_deadline, deadline)

BaseSubtask ==
    MkSubtask(<<JStr(S_Book)>>, <<JStr(S_Venue)>>,
              <<JStr(FormatDateTime(2025, 6, 4, 17, 0, -1, FALSE))>>)

BaseAnalysis ==
    MkAnalysis(<<JStr(S_Plan)>>, <<JArr(<<BaseSubtask, JStr(S_Invite)>>)>>,
               <<JStr(FormatDate(2025, 6, 6))>>, <<JStr(S_high)>>, <<JStr(S_Go)>>)

\* JSON values a reply may consist of
ExtractValues ==
    {BaseAnalysis,
     JObj(<<>>, <<>>),
     JObj(<<S_title>>, <<JStr(S_Plan)>>),
     JObj(<<S_title>>, <<JStr(<<"a", "}", "b", "{">>)>>),
     JArr(<<JObj(<<S_title>>, <<JStr(S_Plan)>>)>>),
     JArr(<<>>), JStr(S_Plan), JNum(<<"5">>), JNull, JBool(TRUE)}

\* texts that are no JSON
BrokenBodies ==
    {<<>>, <<"S", "o", "r", "r", "y">>, <<"{", "o", "o", "p", "s", "}">>, <<"{", "\"", "t", "i", "t", "l", "e", "\"", ":", " ">>,
     <<"{", "\"", "t", "i", "t", "l", "e", "\"", ":", " ", "\"", "P", "l", "a", "n", "\"", ",", "}">>, <<"}", "{">>, <<"{">>, <<"}">>}

ExtractBodies ==
    {[valid |-> TRUE, v |-> v, raw |-> Dumps(v)] : v \in ExtractValues}
    \cup {[valid |-> FALSE, v |-> JNull, raw |-> b] : b \in BrokenBodies}

\* text before and after the body
Prefixes == {<<>>, <<" ">>, <<"H", "e", "r", "e", ":", " ">>, <<"a", "{", "b", "}", "c", " ">>, <<"[">>}
Suffixes == {<<>>, <<"\n">>, <<" ", "o", "k">>, <<" ", "{", "x", "}">>, <<"]">>, <<"}">>}

ExtractSources == [pre : Prefixes, body : ExtractBodies, suf : Suffixes]

ExtractInit ==
    /\ OPENAI_API_KEY \in BOOLEAN /\ TOGETHER_API_KEY = TRUE
    /\ users = {} /\ tasks = <<>> /\ nextId = 1
    /\ FEEDBACK_CACHE = <<>> /\ now = 0
    /\ NoChat
    /\ resp = Idle /\ dl = Idle
    /\ \E src \in ExtractSources, raises \in BOOLEAN :
          call = [handler |-> "analyze_task_with_llm", text |-> S_Party, src |-> src,
                  llm |-> IF raises THEN LlmRaises
                          ELSE LlmReplies(src.pre \o src.body.raw \o src.suf),
                  done |-> FALSE]

\* analyze_task_with_llm(text) returns
AnalyzeTask ==
    /\ call.handler = "analyze_task_with_llm" /\ ~call.done
    /\ call' = [call EXCEPT !.done = TRUE]
    /\ resp' = analyze_task_with_llm(call.text, call.llm)
    /\ UNCHANGED <<chat_state, OPENAI_API_KEY, TOGETHER_API_KEY, users, tasks, nextId,
                   FEEDBACK_CACHE, now, dl>>

ExtractNext == AnalyzeTask

SpecExtract == ExtractInit /\ [][ExtractNext]_vars

\* analyze_task_with_llm has returned for a reply of the LLM (key configured, call made)
Replied == call.handler = "analyze_task_with_llm" /\ call.done /\ OPENAI_API_KEY
           /\ call.llm.kind = "reply"

\* the slice from the first "{" to the last "}" is missing or empty
NoBraceSlice(t) == ~(Find(t, "{") >= 0 /\ RFind(t, "}") + 1 > Find(t, "{"))

BraceSlice(t) == Slice(t, Find(t, "{"), RFind(t, "}") + 1)

\* no JSON can be parsed from t
Unparseable(t) == ~Loads(t).ok /\ (NoBraceSlice(t) \/ ~Loads(BraceSlice(t)).ok)

FallbackKeys == {S_title, S_subtasks, S_deadline, S_priority, S_emotional_support}

\* C3: for every reply from which no JSON can be parsed, analyze_task_with_llm
\* returns the fixed fallback object, a dict with exactly the keys title, subtasks,
\* deadline, priority, emotional_support (never None).
C3_FallbackOnUnparseable ==
    (Replied /\ Unparseable(call.llm.text))
    => /\ resp.ret.k = "obj"
       /\ {resp.ret.keys[i] : i \in 1..Len(resp.ret.keys)} = FallbackKeys
       /\ resp.ret = FallbackAnalysis(call.text)

\* C7 as stated: for every reply that is valid JSON, the returned value is the value
\* parsed from the whole text.
C7_ValidJsonUnchanged ==
    (Replied /\ Loads(call.llm.text).ok) => resp.ret = Loads(call.llm.text).v

\* C7 amended: for every reply that is a valid JSON object, the returned value is the
\* object parsed from the whole text (the object the text was written from, when only
\* blanks surround it); for every reply that is valid JSON but no object (an array, a
\* string, a number, true, false, null), the returned value is the fallback object.
C7_ValidJsonObjectUnchanged ==
    LET t == call.llm.text
        src == call.src
        blank(x) == \A i \in 1..Len(x) : x[i] \in Whitespace
    IN  /\ (Replied /\ Loads(t).ok)
           => resp.ret = IF Loads(t).v.k = "obj" THEN Loads(t).v
                         ELSE FallbackAnalysis(call.text)
        /\ (Replied /\ blank(src.pre) /\ blank(src.suf) /\ src.body.valid)
           => resp.ret = IF src.body.v.k = "obj" THEN src.body.v
                         ELSE FallbackAnalysis(call.text)

\* the reply is the base analysis object after a blank: it is returned as written
C7_Witness ==
    /\ Replied
    /\ call.src.pre = <<" ">> /\ call.src.suf = <<"\n">>
    /\ call.src.body.valid /\ call.src.body.v = BaseAnalysis
    /\ Loads(call.llm.text).ok
    /\ resp.ret = BaseAnalysis /\ Len(resp.ret.keys) = 5

\* natural-language text: no brace, and no bracket that would make the text an array
Prose(x) == \A i \in 1..Len(x) : x[i] \notin {"{", "}", "[", "]"}

MaxCalls == 1

UserIds == {"u1", "u2"}

S_order == <<"o", "r", "d", "e", "r">>

\* a subtask object that carries an order of its own
OrderedSubtask == SetKey(BaseSubtask, S_order, JNum(<<"7">>))

SubtaskVariants ==
    {OrderedSubtask,
     MkSubtask(<<>>, <<JStr(S_Venue)>>, <<>>),
     MkSubtask(<<JNull>>, <<JStr(S_Venue)>>, <<>>),
     MkSubtask(<<JStr(S_Book)>>, <<>>, <<>>),
     MkSubtask(<<JStr(S_Book)>>, <<JNull>>, <<>>),
     MkSubtask(<<JStr(S_Book)>>, <<JStr(S_Venue)>>, <<JStr(FormatDate(2025, 6, 5))>>),
     MkSubtask(<<JStr(S_Book)>>, <<JStr(S_Venue)>>,
               <<JStr(FormatDateTime(2025, 6, 5, 9, 30, 0, TRUE))>>)}
    \cup {MkSubtask(<<JStr(S_Book)>>, <<JStr(S_Venue)>>, <<v>>) : v \in NoDeadlineValues}

SubtaskOptions ==
    {<<>>, <<JNull>>, <<JArr(<<>>)>>, <<JArr(<<JStr(S_Invite)>>)>>,
     <<JArr(<<MkSubtask(<<JStr(S_Book)>>, <<JNull>>, <<>>), BaseSubtask, JStr(S_Invite)>>)>>,
     <<JArr(<<MkSubtask(<<JStr(S_Book)>>, <<JNull>>, <<>>), OrderedSubtask,
              JStr(S_Invite)>>)>>}
    \cup {<<JArr(<<JStr(S_Invite), sub>>)>> : sub \in SubtaskVariants}

\* the base object with one field varied
NLAnalyses ==
    LET t == <<JStr(S_Plan)>>
        st == <<JArr(<<BaseSubtask, JStr(S_Invite)>>)>>
        d == <<JStr(FormatDate(2025, 6, 6))>>
        p == <<JStr(S_high)>>
        e == <<JStr(S_Go)>>
    IN  {BaseAnalysis, JObj(<<>>, <<>>)}
        \cup {MkAnalysis(x, st, d, p, e) : x \in {<<>>, <<JNull>>}}
        \cup {MkAnalysis(t, x, d, p, e) : x \in SubtaskOptions}
        \cup {MkAnalysis(t, st, x, p, e) :
                 x \in {<<>>, <<JStr(FormatDateTime(2025, 6, 6, 17, 0, 30, TRUE))>>,
                        <<JStr(FormatDateTime(2025, 6, 6, 17, 0, -1, FALSE))>>}
                       \cup {<<v>> : v \in NoDeadlineValues}}
        \cup {MkAnalysis(t, st, d, x, e) : x \in {<<>>, <<JNull>>, <<JStr(S_urgent)>>}}
        \cup {MkAnalysis(t, st, d, p, x) : x \in {<<>>, <<JNull>>}}

NLReplies ==
    {Dumps(a) : a \in NLAnalyses}
    \cup {Dumps(JArr(<<BaseAnalysis>>)), Dumps(JNum(<<"5">>)), Dumps(JNull),
          <<"S", "o", "r", "r", "y", ",", " ", "I", " ", "c", "a", "n", "n", "o", "t", " ", "h", "e", "l", "p", ".">>, <<"{", "o", "o", "p", "s", "}">>,
          <<"H", "e", "r", "e", ":", " ">> \o Dumps(BaseAnalysis) \o <<" ", "o", "k">>,
          <<"a", "{", "b", "}", "c", " ">> \o Dumps(BaseAnalysis)}

\* no completion call is made
LlmNone == [kind |-> "none", text |-> <<>>]

\* what the provider may do with the call a handler makes for user_id
LlmOutcomes(user_id, replies) ==
    IF user_id \in users /\ OPENAI_API_KEY
    THEN {LlmRaises} \cup {LlmReplies(t) : t \in replies}
    ELSE {LlmNone}

\* task_data as create_task_sync builds it: title, description (None when not
\* given), priority (one of low, medium, high), deadline (a stripped non-empty
\* string, or None)
ToolTaskData ==
    {JObj(<<S_title, S_description, S_priority, S_deadline>>,
          <<JStr(S_Plan), desc, JStr(S_high), d>>) :
        desc \in {JNull, JStr(S_Venue)},
        d \in {JNull, JStr(S_null), JStr(S_not_specified), JStr(FormatDate(2025, 6, 6)),
               JStr(FormatDateTime(2025, 6, 6, 17, 0, -1, FALSE)),
               JStr(FormatDateTime(2025, 6, 6, 17, 0, 30, TRUE))}
              \cup {JStr(m) : m \in MalformedDeadlines}}

NoCall == [handler |-> "none", user_id |-> "", text |-> <<>>, llm |-> LlmNone, n |-> 0,
           tasks_before |-> <<>>]

NLInit ==
    /\ OPENAI_API_KEY \in BOOLEAN /\ TOGETHER_API_KEY \in BOOLEAN
    /\ users = {"u1"} /\ tasks = <<>> /\ nextId = 1
    /\ FEEDBACK_CACHE = <<>> /\ now = 0
    /\ NoChat
    /\ call = NoCall /\ resp = Idle /\ dl = Idle

\* what a handler call leaves in the state
Returned(handler, user_id, text, llm, r) ==
    /\ tasks' = r.tasks
    /\ nextId' = r.nextId
    /\ call' = [handler |-> handler, user_id |-> user_id, text |-> text, llm |-> llm,
                n |-> call.n + 1, tasks_before |-> tasks]
    /\ resp' = [handler |-> handler, status |-> r.status, body |-> r.body,
                analyzed |-> r.analyzed, analysis |-> r.analysis,
                llm_calls |-> r.llm_calls]
    /\ UNCHANGED <<chat_state, OPENAI_API_KEY, TOGETHER_API_KEY, users, FEEDBACK_CACHE, now, dl>>

\* POST /process-task
ProcessTask ==
    /\ call.n < MaxCalls
    /\ \E user_id \in UserIds : \E llm \in LlmOutcomes(user_id, NLReplies) :
          \E r \in {process_natural_language_task([text |-> S_Party,
                                                     user_id |-> user_id], llm)} :
             Returned("process_task", user_id, S_Party, llm, r)

\* process_natural_language_task_internal, as the decompose_task tool calls it
DecomposeInternal ==
    /\ call.n < MaxCalls
    /\ \E user_id \in UserIds : \E llm \in LlmOutcomes(user_id, NLReplies) :
          \E r \in {process_natural_language_task_internal(S_Party, user_id, llm)} :
             Returned("internal", user_id, S_Party, llm, r)

\* create_task_from_llm, as the create_task tool calls it
CreateTaskFromLlm ==
    /\ call.n < MaxCalls
    /\ \E user_id \in UserIds, task_data \in ToolTaskData :
          \E llm \in LlmOutcomes(user_id, {<<" ", "G", "o", " ">>}) :
             \E r \in {create_task_from_llm(task_data, user_id, llm)} :
                Returned("create_task_from_llm", user_id, <<>>, llm, r)

NLNext == ProcessTask \/ DecomposeInternal \/ CreateTaskFromLlm

SpecNL == NLInit /\ [][NLNext]_vars

\* C2: for an existing user and a configured key, POST /process-task ends with
\* status 200 and exactly one Task appended to the store and returned, whatever
\* the LLM step did.
C2_AlwaysOneTask ==
    (call.handler = "process_task" /\ call.user_id \in users
     /\ (OPENAI_API_KEY \/ TOGETHER_API_KEY))
    => /\ resp.status = "200"
       /\ Len(resp.body) = 1
       /\ tasks = Append(call.tasks_before, resp.body[1])

\* a decomposition (either path) for an existing user whose completion call raised
LlmFailed ==
    /\ call.handler \in {"process_task", "internal"}
    /\ call.user_id \in users
    /\ call.llm.kind = "raise"

\* C4: when the completion call of a decomposition raises, the handler (on the
\* /process-task path and on the internal path) still appends one Task with
\* priority "medium" and exactly one subtask, titled "Review task details".
C4_FallbackTaskPersisted ==
    LlmFailed
    => /\ resp.status = IF call.handler = "process_task" THEN "200" ELSE "success"
       /\ resp.llm_calls = 1
       /\ Len(resp.body) = 1
       /\ tasks = Append(call.tasks_before, resp.body[1])
       /\ resp.body[1].priority = JStr(S_medium)
       /\ Len(resp.body[1].subtasks) = 1
       /\ resp.body[1].subtasks[1].title = JStr(S_Review_task_details)

C4_Witness ==
    /\ LlmFailed
    /\ call.handler = "internal"
    /\ Len(tasks) = 1
    /\ tasks[1].subtasks[1].title = JStr(S_Review_task_details)

\* a subtask item the Subtask model accepts
SubtaskItemOk(item) ==
    \/ item.k = "str"
    \/ /\ item.k = "obj"
       /\ IsStr(Get(item, S_description, JStr(<<>>)))
       /\ IsOptStr(Get(item, S_title, JNull))

\* an analysis from which Task and every Subtask can be built, whatever its deadlines
AnalysisOk(a) ==
    /\ a.k = "obj"
    /\ IsStr(Get(a, S_title, JStr(<<>>)))
    /\ IsStr(Get(a, S_priority, JStr(S_medium)))
    /\ IsOptStr(Get(a, S_emotional_support, JStr(<<>>)))
    /\ Get(a, S_subtasks, JArr(<<>>)).k = "arr"
    /\ \A i \in 1..Len(Get(a, S_subtasks, JArr(<<>>)).items) :
          SubtaskItemOk(Get(a, S_subtasks, JArr(<<>>)).items[i])

\* C6: a deadline value that is malformed, None, "null" or "not specified" gives
\* no deadline and does not stop the creation: /process-task creates the task and
\* every subtask, create_task_from_llm creates the task, and each task or subtask
\* whose deadline value is of that kind is stored without a deadline.
C6_NoDeadlineStillCreated ==
    /\ (call.handler = "process_task" /\ resp.analyzed /\ AnalysisOk(resp.analysis))
       => LET a == resp.analysis
              items == Get(a, S_subtasks, JArr(<<>>)).items
          IN  /\ resp.status = "200"
              /\ tasks = Append(call.tasks_before, resp.body[1])
              /\ Len(resp.body[1].subtasks) = Len(items)
              /\ Get(a, S_deadline, JNull) \in NoDeadlineValues
                 => resp.body[1].deadline = NoDeadline
              /\ \A i \in 1..Len(items) :
                    (items[i].k = "obj"
                     /\ Get(items[i], S_deadline, JNull) \in NoDeadlineValues)
                    => resp.body[1].subtasks[i].deadline = NoDeadline
    /\ (call.handler = "create_task_from_llm" /\ call.user_id \in users
        /\ Get(resp.analysis, S_deadline, JNull) \in NoDeadlineValues)
       => /\ resp.status = "success"
          /\ tasks = Append(call.tasks_before, resp.body[1])
          /\ resp.body[1].deadline = NoDeadline

C6_Witness ==
    /\ call.handler = "process_task"
    /\ resp.analyzed
    /\ AnalysisOk(resp.analysis)
    /\ Get(resp.analysis, S_deadline, JNull) \in {JStr(m) : m \in MalformedDeadlines}
    /\ Len(tasks) = 1
    /\ tasks[1].deadline = NoDeadline
    /\ Len(tasks[1].subtasks) = 2

(***************************************************************************)
(* The task store and its CRUD handlers.  A handler runs from its first    *)
(* find_one to its return as one step.                                     *)
(***************************************************************************)
MaxId == 3

\* position of the task with this id in the store, 0 when there is none
\* (find_one({"id": task_id}))
FindTask(store, task_id) ==
    IF \E i \in 1..Len(store) : store[i].id = task_id
    THEN CHOOSE i \in 1..Len(store) : store[i].id = task_id
    ELSE 0

\* update_one({"id": task_id}, {"$set": fields}): fields is a function from the
\* names it sets to their new values
SetFields(store, task_id, fields) ==
    [i \in 1..Len(store) |->
        IF i = FindTask(store, task_id)
        THEN [k \in DOMAIN store[i] |-> IF k \in DOMAIN fields THEN fields[k]
                                                                  ELSE store[i][k]]
        ELSE store[i]]

\* a handler's outcome: the HTTP status, the returned Task, the store and the
\* identifier source after the call
Outcome(status, body, store, next) ==
    [status |-> status, body |-> body, tasks |-> store, nextId |-> next]

\* POST /tasks
create_task(task_create, user_id, llm) ==
    LET task == NewTask(nextId, user_id, task_create.title, task_create.description,
                        task_create.deadline, task_create.priority, JNull)
        support == generate_emotional_support(task.title, task.deadline, llm)
        created == [task EXCEPT !.emotional_support = support.message]
    IN  IF user_id \notin users THEN Outcome("404", <<>>, tasks, nextId)
        ELSE IF support.raised THEN Outcome("500", <<>>, tasks, nextId)
        ELSE Outcome("200", <<created>>, Append(tasks, created), nextId + 1)

\* the subtasks of the handler's local copy of the task, all marked completed
CascadeCompleted(subtasks) ==
    [i \in 1..Len(subtasks) |-> [subtasks[i] EXCEPT !.completed = TRUE]]

\* PUT /tasks/{task_id}.  update_data is task_update.dict(exclude_unset=True): the
\* fields the request sets.  The loop that marks the subtasks completed writes to
\* the dict read by find_one; the $set that follows is given update_data alone.
update_task(task_id, update_data) ==
    LET i == FindTask(tasks, task_id)
        task == tasks[i]
        local == IF "completed" \in DOMAIN update_data /\ update_data.completed
                 THEN [task EXCEPT !.subtasks = CascadeCompleted(task.subtasks)]
                 ELSE task
        stored == IF DOMAIN update_data # {} THEN SetFields(tasks, task_id, update_data)
                  ELSE tasks
    IN  IF i = 0 THEN Outcome("404", <<>>, tasks, nextId)
        ELSE Outcome("200", <<stored[i]>>, stored, nextId)

\* DELETE /tasks/{task_id}
delete_task(task_id) ==
    LET Keep(t) == t.id # task_id
    IN  IF FindTask(tasks, task_id) = 0 THEN Outcome("404", <<>>, tasks, nextId)
        ELSE Outcome("200", <<>>, SelectSeq(tasks, Keep), nextId)

\* POST /tasks/{task_id}/subtasks
create_subtask(task_id, subtask_create) ==
    LET i == FindTask(tasks, task_id)
        task == tasks[i]
        subtask == NewSubtask(nextId, task_id, subtask_create.title,
                              subtask_create.description, subtask_create.deadline,
                              IF subtask_create.order # 0 THEN subtask_create.order
                              ELSE Len(task.subtasks))
        stored == SetFields(tasks, task_id, [subtasks |-> Append(task.subtasks, subtask)])
    IN  IF i = 0 THEN Outcome("404", <<>>, tasks, nextId)
        ELSE Outcome("200", <<stored[i]>>, stored, nextId + 1)

\* the handler with the task's flag set when every subtask is completed and left
\* alone otherwise
update_subtask_OnlyCompletes(task_id, subtask_id, update_data) ==
    LET i == FindTask(tasks, task_id)
        task == tasks[i]
        subtask_index == FindTask(task.subtasks, subtask_id)
        subtasks == [j \in 1..Len(task.subtasks) |->
                        IF j = subtask_index
                        THEN [k \in DOMAIN task.subtasks[j] |->
                                 IF k \in DOMAIN update_data THEN update_data[k]
                                 ELSE task.subtasks[j][k]]
                        ELSE task.subtasks[j]]
        all_completed == \A j \in 1..Len(subtasks) : subtasks[j].completed
        stored == IF DOMAIN update_data # {}
                  THEN SetFields(tasks, task_id,
                                 [subtasks |-> subtasks,
                                  completed |-> all_completed \/ task.completed])
                  ELSE tasks
    IN  IF i = 0 THEN Outcome("404", <<>>, tasks, nextId)
        ELSE IF subtask_index = 0 THEN Outcome("404", <<>>, tasks, nextId)
        ELSE Outcome("200", <<stored[i]>>, stored, nextId)

\* PUT /tasks/{task_id}/subtasks/{subtask_id}
update_subtask(task_id, subtask_id, update_data) ==
    LET i == FindTask(tasks, task_id)
        task == tasks[i]
        subtask_index == FindTask(task.subtasks, subtask_id)
        subtasks == [j \in 1..Len(task.subtasks) |->
                        IF j = subtask_index
                        THEN [k \in DOMAIN task.subtasks[j] |->
                                 IF k \in DOMAIN update_data THEN update_data[k]
                                 ELSE task.subtasks[j][k]]
                        ELSE task.subtasks[j]]
        all_completed == \A j \in 1..Len(subtasks) : subtasks[j].completed
        stored == IF DOMAIN update_data # {}
                  THEN SetFields(tasks, task_id,
                                 [subtasks |-> subtasks, completed |-> all_completed])
                  ELSE tasks
    IN  IF i = 0 THEN Outcome("404", <<>>, tasks, nextId)
        ELSE IF subtask_index = 0 THEN Outcome("404", <<>>, tasks, nextId)
        ELSE Outcome("200", <<stored[i]>>, stored, nextId)

\* DELETE /tasks/{task_id}/subtasks/{subtask_id}
delete_subtask(task_id, subtask_id) ==
    LET i == FindTask(tasks, task_id)
        Keep(st) == st.id # subtask_id
        stored == SetFields(tasks, task_id,
                            [subtasks |-> SelectSeq(tasks[i].subtasks, Keep)])
    IN  IF i = 0 THEN Outcome("404", <<>>, tasks, nextId)
        ELSE Outcome("200", <<stored[i]>>, stored, nextId)

\* request bodies
TaskCreates ==
    [title : {JStr(S_Plan)}, description : {JNull},
     deadline : {NoDeadline, Instant(2025, 6, 6, 17, 0, 0, TRUE, 0)},
     priority : {JStr(S_medium)}]

SubtaskCreates ==
    [title : {JStr(S_Book)}, description : {JStr(S_Venue)}, deadline : {NoDeadline},
     order : {0}]

\* TaskUpdate with these fields set
TaskUpdateData(keys, completed) ==
    [k \in keys |-> IF k = "completed" THEN completed ELSE JStr(S_high)]

\* SubtaskUpdate with these fields set
SubtaskUpdateData(keys, completed) ==
    [k \in keys |-> IF k = "completed" THEN completed ELSE JStr(S_Invite)]

Ids == 1..MaxId

Init ==
    /\ OPENAI_API_KEY \in BOOLEAN /\ TOGETHER_API_KEY = FALSE
    /\ users = {"u1"} /\ tasks = <<>> /\ nextId = 1
    /\ FEEDBACK_CACHE = <<>> /\ now = 0
    /\ NoChat
    /\ call = [handler |-> "none"] /\ resp = Idle /\ dl = Idle

\* what a CRUD handler call leaves in the state
Handled(handler, task_id, subtask_id, update_data, r) ==
    /\ tasks' = r.tasks
    /\ nextId' = r.nextId
    /\ call' = [handler |-> handler, task_id |-> task_id, subtask_id |-> subtask_id,
                update_data |-> update_data]
    /\ resp' = [handler |-> handler, status |-> r.status, body |-> r.body]
    /\ UNCHANGED <<chat_state, OPENAI_API_KEY, TOGETHER_API_KEY, users, FEEDBACK_CACHE, now, dl>>

CreateTask ==
    /\ nextId <= MaxId
    /\ \E user_id \in UserIds, task_create \in TaskCreates :
          \E llm \in LlmOutcomes(user_id, {<<" ", "G", "o", " ">>}) \ {LlmRaises} :
             \E r \in {create_task(task_create, user_id, llm)} :
                Handled("create_task", 0, 0, <<>>, r)

UpdateTask ==
    \E task_id \in Ids, keys \in SUBSET {"completed", "priority"}, completed \in BOOLEAN :
       \E r \in {update_task(task_id, TaskUpdateData(keys, completed))} :
          Handled("update_task", task_id, 0, TaskUpdateData(keys, completed), r)

DeleteTask ==
    \E task_id \in Ids :
       \E r \in {delete_task(task_id)} : Handled("delete_task", task_id, 0, <<>>, r)

CreateSubtask ==
    /\ nextId <= MaxId
    /\ \E task_id \in Ids, subtask_create \in SubtaskCreates :
          \E r \in {create_subtask(task_id, subtask_create)} :
             Handled("create_subtask", task_id, 0, <<>>, r)

UpdateSubtask ==
    \E task_id \in Ids, subtask_id \in Ids, keys \in {{}, {"completed"}, {"title"}},
       completed \in BOOLEAN :
       \E r \in {update_subtask(task_id, subtask_id,
                                 SubtaskUpdateData(keys, completed))} :
          Handled("update_subtask", task_id, subtask_id,
                  SubtaskUpdateData(keys, completed), r)

DeleteSubtask ==
    \E task_id \in Ids, subtask_id \in Ids :
       \E r \in {delete_subtask(task_id, subtask_id)} :
          Handled("delete_subtask", task_id, subtask_id, <<>>, r)

Next ==
    \/ CreateTask
    \/ UpdateTask
    \/ DeleteTask
    \/ CreateSubtask
    \/ UpdateSubtask
    \/ DeleteSubtask

Spec == Init /\ [][Next]_vars

\* C1: after update_task has set completed = true on a stored task, every subtask
\* of that task in the store has completed = true.
C1_CascadePersisted ==
    (call.handler = "update_task" /\ resp.status = "200"
     /\ "completed" \in DOMAIN call.update_data /\ call.update_data.completed)
    => LET task == tasks[FindTask(tasks, call.task_id)]
       IN  /\ task.completed
           /\ \A i \in 1..Len(task.subtasks) : task.subtasks[i].completed

(***************************************************************************)
(* analyze_statistics_with_llm and FEEDBACK_CACHE.  The clock is in whole  *)
(* seconds; one call reads it once.                                        *)
(***************************************************************************)
CACHE_DURATION == 3600

MaxNow == 5403

\* str(n) of a natural number
RECURSIVE Str(_)
Str(n) == IF n < 10 THEN <<DigitChar(n)>> ELSE Str(n \div 10) \o <<DigitChar(n % 10)>>

\* a key that also tells the number of high-priority tasks
CacheKey_WithPriority(stats) ==
    Str(stats.total_tasks) \o <<"_">> \o Str(stats.completed_tasks) \o <<"_">>
    \o Str(stats.total_subtasks) \o <<"_">> \o Str(stats.completed_subtasks)
    \o <<"_">> \o Str(stats.tasks_by_priority.high)

\* f"{stats.total_tasks}_{stats.completed_tasks}_{stats.total_subtasks}_{stats.completed_subtasks}"
CacheKey(stats) ==
    Str(stats.total_tasks) \o <<"_">> \o Str(stats.completed_tasks) \o <<"_">>
    \o Str(stats.total_subtasks) \o <<"_">> \o Str(stats.completed_subtasks)

S_summary == <<"s", "u", "m", "m", "a", "r", "y">>
S_motivation == <<"m", "o", "t", "i", "v", "a", "t", "i", "o", "n">>
S_Unavailable ==
    <<"A", "I", " ", "A", "n", "a", "l", "y", "s", "i", "s", " ", "S", "e", "r", "v",
      "i", "c", "e", " ", "U", "n", "a", "v", "a", "i", "l", "a", "b", "l", "e">>
S_Service_Error ==
    <<"A", "I", " ", "A", "n", "a", "l", "y", "s", "i", "s", " ", "S", "e", "r", "v",
      "i", "c", "e", " ", "E", "r", "r", "o", "r">>
S_journey ==
    <<"Y", "o", "u", "r", " ", "p", "r", "o", "d", "u", "c", "t", "i", "v", "i", "t",
      "y", " ", "j", "o", "u", "r", "n", "e", "y", " ", "i", "s", " ", "u", "n", "i",
      "q", "u", "e", ".", " ", "E", "v", "e", "n", " ", "w", "i", "t", "h", "o", "u",
      "t", " ", "A", "I", " ", "a", "n", "a", "l", "y", "s", "i", "s", ",", " ", "y",
      "o", "u", "'", "r", "e", " ", "m", "a", "k", "i", "n", "g", " ", "p", "r", "o",
      "g", "r", "e", "s", "s", "!">>
S_serve_you ==
    <<"R", "e", "m", "e", "m", "b", "e", "r", " ", "t", "h", "a", "t", " ", "p", "r",
      "o", "d", "u", "c", "t", "i", "v", "i", "t", "y", " ", "t", "o", "o", "l", "s",
      " ", "a", "r", "e", " ", "m", "e", "a", "n", "t", " ", "t", "o", " ", "s", "e",
      "r", "v", "e", " ", "y", "o", "u", ",", " ", "n", "o", "t", " ", "t", "h", "e",
      " ", "o", "t", "h", "e", "r", " ", "w", "a", "y", " ", "a", "r", "o", "u", "n",
      "d", ".", " ", "Y", "o", "u", "r", " ", "w", "o", "r", "t", "h", " ", "i", "s",
      " ", "n", "o", "t", " ", "m", "e", "a", "s", "u", "r", "e", "d", " ", "b", "y",
      " ", "t", "h", "e", "s", "e", " ", "s", "t", "a", "t", "i", "s", "t", "i", "c",
      "s", ".">>
S_technology_fails ==
    <<"E", "v", "e", "n", " ", "w", "h", "e", "n", " ", "t", "e", "c", "h", "n", "o",
      "l", "o", "g", "y", " ", "f", "a", "i", "l", "s", ",", " ", "y", "o", "u", "r",
      " ", "p", "r", "o", "d", "u", "c", "t", "i", "v", "i", "t", "y", " ", "j", "o",
      "u", "r", "n", "e", "y", " ", "c", "o", "n", "t", "i", "n", "u", "e", "s", ".",
      " ", "T", "a", "k", "e", " ", "t", "h", "i", "s", " ", "m", "o", "m", "e", "n",
      "t", " ", "t", "o", " ", "r", "e", "f", "l", "e", "c", "t", " ", "o", "n", " ",
      "w", "h", "a", "t", " ", "y", "o", "u", "'", "v", "e", " ", "a", "c", "c", "o",
      "m", "p", "l", "i", "s", "h", "e", "d", " ", "w", "i", "t", "h", "o", "u", "t",
      " ", "a", "n", " ", "A", "I", " ", "t", "e", "l", "l", "i", "n", "g", " ", "y",
      "o", "u", ".">>

\* the three fixed payloads, by their summary and motivation (the insights,
\* suggestions, achievements and growth_areas lists are left out)
service_unavailable_feedback ==
    JObj(<<S_summary, S_motivation>>, <<JStr(S_Unavailable), JStr(S_journey)>>)
service_error_feedback_parse ==
    JObj(<<S_summary, S_motivation>>, <<JStr(S_Service_Error), JStr(S_serve_you)>>)
service_error_feedback_request ==
    JObj(<<S_summary, S_motivation>>, <<JStr(S_Service_Error), JStr(S_technology_fails)>>)

\* FEEDBACK_CACHE[cache_key] = (feedback, time.time())
CachePut(cache, cache_key, feedback, timestamp) ==
    [k \in DOMAIN cache \cup {cache_key} |->
        IF k = cache_key THEN [feedback |-> feedback, timestamp |-> timestamp]
        ELSE cache[k]]

\* an entry of exactly CACHE_DURATION seconds counted as still valid
CacheFresh_Inclusive(timestamp) == now - timestamp <= CACHE_DURATION

\* time.time() - timestamp < CACHE_DURATION
CacheFresh(timestamp) == now - timestamp < CACHE_DURATION

\* analyze_statistics_with_llm, as [ret, cache, llm_calls, hit]: the returned value
\* (JNull for None), FEEDBACK_CACHE after the call, the completion calls made, and
\* whether the value came from the cache.
analyze_statistics_with_llm(stats, llm) ==
    LET cache_key == CacheKey(stats)
        stored(feedback, n) ==
            [ret |-> feedback, cache |-> CachePut(FEEDBACK_CACHE, cache_key, feedback, now),
             llm_calls |-> n, hit |-> FALSE]
        generated_text == llm.text
        direct == Loads(generated_text)
        json_start == Find(generated_text, "{")
        json_end == RFind(generated_text, "}") + 1
        sliced == Loads(Slice(generated_text, json_start, json_end))
    IN  IF cache_key \in DOMAIN FEEDBACK_CACHE
           /\ CacheFresh(FEEDBACK_CACHE[cache_key].timestamp)
        THEN [ret |-> FEEDBACK_CACHE[cache_key].feedback, cache |-> FEEDBACK_CACHE,
              llm_calls |-> 0, hit |-> TRUE]
        ELSE IF ~OPENAI_API_KEY THEN stored(service_unavailable_feedback, 0)
        ELSE IF llm.kind = "raise" THEN stored(service_error_feedback_request, 1)
        ELSE IF direct.ok THEN stored(direct.v, 1)
        ELSE IF json_start >= 0 /\ json_end > json_start
        THEN IF sliced.ok THEN stored(sliced.v, 1)
             ELSE stored(service_error_feedback_parse, 1)
        ELSE [ret |-> JNull, cache |-> FEEDBACK_CACHE, llm_calls |-> 1, hit |-> FALSE]

\* aggregate counters of a user's tasks
StatsValues ==
    [total_tasks : {2}, completed_tasks : {1}, total_subtasks : {3},
     completed_subtasks : {1, 2}]

S_Good == <<"G", "o", "o", "d">>
FeedbackReplies ==
    {Dumps(JObj(<<S_summary>>, <<JStr(S_Good)>>)),
     <<"H", "e", "r", "e", ":", " ">> \o Dumps(JObj(<<S_summary>>, <<JStr(S_Plan)>>)),
     Dumps(JArr(<<>>)),
     <<"K", "e", "e", "p", " ", "g", "o", "i", "n", "g", "!">>,
     <<"{", "o", "o", "p", "s", "}">>}

Steps == {1799, 1800, 1801}

EmptyCache == [k \in {} |-> 0]

FeedbackInit ==
    /\ OPENAI_API_KEY \in BOOLEAN /\ TOGETHER_API_KEY = FALSE
    /\ users = {"u1"} /\ tasks = <<>> /\ nextId = 1
    /\ FEEDBACK_CACHE = EmptyCache /\ now = 0
    /\ NoChat
    /\ call = [handler |-> "none"] /\ resp = Idle /\ dl = Idle

\* the completion call is made only on a miss with the key configured
AnalyzeStatistics ==
    \E stats \in StatsValues :
       \E llm \in IF OPENAI_API_KEY /\ ~analyze_statistics_with_llm(stats, LlmNone).hit
                  THEN {LlmRaises} \cup {LlmReplies(t) : t \in FeedbackReplies}
                  ELSE {LlmNone} :
          \E r \in {analyze_statistics_with_llm(stats, llm)}, cache_key \in {CacheKey(stats)} :
              /\ FEEDBACK_CACHE' = r.cache
              /\ call' = [handler |-> "analyze_statistics_with_llm", stats |-> stats,
                          llm |-> llm, at |-> now,
                          entry_before |-> IF cache_key \in DOMAIN FEEDBACK_CACHE
                                           THEN <<FEEDBACK_CACHE[cache_key]>> ELSE <<>>]
              /\ resp' = [handler |-> "analyze_statistics_with_llm", ret |-> r.ret,
                          llm_calls |-> r.llm_calls, hit |-> r.hit]
              /\ UNCHANGED <<chat_state, OPENAI_API_KEY, TOGETHER_API_KEY, users, tasks, nextId, now,
                             dl>>

\* time passes between calls
Tick ==
    /\ \E d \in Steps : now + d <= MaxNow /\ now' = now + d
    /\ UNCHANGED <<chat_state, OPENAI_API_KEY, TOGETHER_API_KEY, users, tasks, nextId,
                   FEEDBACK_CACHE, call, resp, dl>>

FeedbackNext == AnalyzeStatistics \/ Tick

SpecFeedback == FeedbackInit /\ [][FeedbackNext]_vars

\* analyze_statistics_with_llm has returned
Analyzed == call.handler = "analyze_statistics_with_llm"

\* seconds between the storing of the entry found under the call's key and the call
EntryAge == call.at - call.entry_before[1].timestamp

\* C9: a call that finds an entry under its counters stored less than CACHE_DURATION
\* seconds before returns the stored payload, makes no completion call and leaves the
\* entry as it was; a call that finds an entry stored CACHE_DURATION seconds or more
\* before makes one completion call when the key is configured.
C9_CacheWindow ==
    (Analyzed /\ call.entry_before # <<>>)
    => /\ EntryAge < CACHE_DURATION
          => /\ resp.hit
             /\ resp.ret = call.entry_before[1].feedback
             /\ resp.llm_calls = 0
             /\ FEEDBACK_CACHE[CacheKey(call.stats)] = call.entry_before[1]
       /\ (EntryAge >= CACHE_DURATION /\ OPENAI_API_KEY)
          => /\ ~resp.hit
             /\ resp.llm_calls = 1

\* an entry of exactly CACHE_DURATION seconds: the completion call is made again
C9_Witness ==
    /\ Analyzed
    /\ call.entry_before # <<>>
    /\ EntryAge = CACHE_DURATION
    /\ OPENAI_API_KEY
    /\ resp.llm_calls = 1

\* C10: a call not served from the cache returns a payload (not None) and leaves,
\* under its key, exactly that payload with the time of the call.
C10_MissIsCached ==
    (Analyzed /\ ~resp.hit)
    => /\ resp.ret # JNull
       /\ CacheKey(call.stats) \in DOMAIN FEEDBACK_CACHE
       /\ FEEDBACK_CACHE[CacheKey(call.stats)]
          = [feedback |-> resp.ret, timestamp |-> call.at]

(***************************************************************************)
(* The statistics endpoints.  A request runs from its first query to its   *)
(* response as one step.                                                   *)
(***************************************************************************)
\* GET /statistics/user/{user_id}: the counters of the stored tasks whose user_id is
\* the one given (the rates, averages and recent lists are left out).  The handler
\* makes no lookup of the user.
get_user_statistics(user_id) ==
    LET Mine(t) == t.user_id = user_id
        Done(t) == t.completed
        found == SelectSeq(tasks, Mine)
        with(p) == Cardinality({i \in 1..Len(found) : found[i].priority = JStr(p)})
        done(subtasks) == Cardinality({j \in 1..Len(subtasks) : subtasks[j].completed})
        total[i \in 0..Len(found)] ==
            IF i = 0 THEN 0 ELSE total[i - 1] + Len(found[i].subtasks)
        completed[i \in 0..Len(found)] ==
            IF i = 0 THEN 0 ELSE completed[i - 1] + done(found[i].subtasks)
    IN  [total_tasks |-> Len(found),
         completed_tasks |-> Len(SelectSeq(found, Done)),
         tasks_by_priority |-> [high |-> with(S_high), medium |-> with(S_medium),
                                low |-> with(<<"l", "o", "w">>)],
         total_subtasks |-> total[Len(found)],
         completed_subtasks |-> completed[Len(found)]]

\* the response_model check of a returned payload: of AIFeedback's required fields,
\* the two the payloads are modelled by
AIFeedbackValid(v) ==
    /\ v.k = "obj"
    /\ HasKey(v, S_summary) /\ IsStr(Get(v, S_summary, JNull))
    /\ HasKey(v, S_motivation) /\ IsStr(Get(v, S_motivation, JNull))

\* GET /statistics/user/{user_id}/feedback, as [status, body, cache, llm_calls].
\* The HTTPException raised for an unknown user is raised inside the try block and
\* caught by its "except Exception": the handler returns the error payload, which
\* has a summary, insights and suggestions only.
get_user_statistics_feedback(user_id, llm) ==
    LET error_feedback ==
            JObj(<<S_summary>>,
                 <<JStr(<<"E", "r", "r", "o", "r", " ", "G", "e", "n", "e", "r", "a",
                          "t", "i", "n", "g", " ", "A", "I", " ", "A", "n", "a", "l",
                          "y", "s", "i", "s">>)>>)
        answered(a) ==
            [status |-> IF AIFeedbackValid(a.ret) THEN "200" ELSE "500",
             body |-> a.ret, cache |-> a.cache, llm_calls |-> a.llm_calls]
    IN  IF user_id \notin users
        THEN answered([ret |-> error_feedback, cache |-> FEEDBACK_CACHE, llm_calls |-> 0])
        ELSE answered(analyze_statistics_with_llm(get_user_statistics(user_id), llm))

\* stores that POST /tasks, POST /tasks/{id}/subtasks and the PUT routes leave
SeedStores ==
    LET plan == NewTask(1, "u1", JStr(S_Plan), JNull, NoDeadline, JStr(S_medium), JNull)
        book == NewSubtask(3, 2, JStr(S_Book), JStr(S_Venue), NoDeadline, 0)
        party == [NewTask(2, "u1", JStr(S_Party), JNull, NoDeadline, JStr(S_high), JNull)
                  EXCEPT !.subtasks = <<book>>]
        finished == [party EXCEPT !.completed = TRUE,
                                  !.subtasks = <<[book EXCEPT !.completed = TRUE]>>]
    IN  {<<>>, <<plan>>, <<plan, party>>, <<plan, finished>>}

StatsInit ==
    /\ OPENAI_API_KEY \in BOOLEAN /\ TOGETHER_API_KEY = FALSE
    /\ users = {"u1"} /\ tasks \in SeedStores /\ nextId = 4
    /\ FEEDBACK_CACHE = EmptyCache /\ now = 0
    /\ NoChat
    /\ call = [handler |-> "none"] /\ resp = Idle /\ dl = Idle

GetUserStatistics ==
    \E user_id \in UserIds :
       /\ call' = [handler |-> "get_user_statistics", user_id |-> user_id]
       /\ resp' = [handler |-> "get_user_statistics", status |-> "200",
                   body |-> get_user_statistics(user_id)]
       /\ UNCHANGED <<chat_state, OPENAI_API_KEY, TOGETHER_API_KEY, users, tasks, nextId,
                      FEEDBACK_CACHE, now, dl>>

\* the completion call is made only for a stored user, on a miss, with the key;
\* call.after is the user of the feedback request answered just before
GetUserStatisticsFeedback ==
    \E user_id \in UserIds :
       \E llm \in IF user_id \in users /\ OPENAI_API_KEY
                     /\ ~analyze_statistics_with_llm(get_user_statistics(user_id),
                                                     LlmNone).hit
                  THEN {LlmRaises} \cup {LlmReplies(t) : t \in FeedbackReplies}
                  ELSE {LlmNone} :
          \E r \in {get_user_statistics_feedback(user_id, llm)} :
             /\ FEEDBACK_CACHE' = r.cache
             /\ call' = [handler |-> "get_user_statistics_feedback",
                         user_id |-> user_id, at |-> now,
                         after |-> IF call.handler = "get_user_statistics_feedback"
                                   THEN call.user_id ELSE ""]
             /\ resp' = [handler |-> "get_user_statistics_feedback",
                         status |-> r.status, body |-> r.body,
                         llm_calls |-> r.llm_calls]
             /\ UNCHANGED <<chat_state, OPENAI_API_KEY, TOGETHER_API_KEY, users, tasks, nextId,
                            now, dl>>

StatsNext == GetUserStatistics \/ GetUserStatisticsFeedback \/ DeleteSubtask

SpecStats == StatsInit /\ [][StatsNext]_vars

\* C11: a request that names a user, a task or a subtask absent from the store
\* (delete_subtask, the statistics endpoint, the statistics-feedback endpoint) is
\* answered 404 and leaves the stored tasks and the feedback cache as they were.
C11_AbsentIdIs404 ==
    [][LET absentUser ==
               /\ call'.handler \in {"get_user_statistics", "get_user_statistics_feedback"}
               /\ call'.user_id \notin users
           absentTask ==
               /\ call'.handler = "delete_subtask"
               /\ FindTask(tasks, call'.task_id) = 0
           absentSubtask ==
               /\ call'.handler = "delete_subtask"
               /\ FindTask(tasks, call'.task_id) # 0
               /\ FindTask(tasks[FindTask(tasks, call'.task_id)].subtasks,
                           call'.subtask_id) = 0
       IN  (absentUser \/ absentTask \/ absentSubtask)
           => /\ resp'.status = "404"
              /\ tasks' = tasks
              /\ FEEDBACK_CACHE' = FEEDBACK_CACHE]_vars

(***************************************************************************)
(* The chat endpoint: the agent's tools, the handler and the drain of the  *)
(* pending queues.  A chat request advances from one await to the next.    *)
(***************************************************************************)
S_user_id == <<"u", "s", "e", "r", "_", "i", "d">>
S_text == <<"t", "e", "x", "t">>

\* query.split("|")
RECURSIVE Split(_, _)
Split(s, acc) ==
    IF s = <<>> THEN <<acc>>
    ELSE IF Head(s) = "|" THEN <<acc>> \o Split(Tail(s), <<>>)
    ELSE Split(Tail(s), Append(acc, Head(s)))

\* get_agent_tools.create_task_sync, as [created, title, priority, tasks, nextId,
\* llm_calls].  The function is synchronous and hands create_task_from_llm to an
\* event loop itself: from a worker thread asyncio.run runs it to its end (runs);
\* from the thread of the running loop it is scheduled on a new loop that nobody
\* runs and future.result(30) raises (not runs).  Either way the function returns
\* only after that, and it appends to no queue.
create_task_sync(query, user_id, llm, runs) ==
    LET part(parts, n) == Strip(parts[n])
        priority(parts) ==
            IF Len(parts) > 2 /\ part(parts, 3) \in {<<"l", "o", "w">>, S_medium, S_high}
            THEN part(parts, 3) ELSE S_medium
        task_data(parts) ==
            JObj(<<S_title, S_description, S_priority, S_deadline, S_user_id>>,
                 <<JStr(part(parts, 1)),
                   IF Len(parts) > 1 THEN JStr(part(parts, 2)) ELSE JNull,
                   JStr(priority(parts)),
                   IF Len(parts) > 3 /\ part(parts, 4) # <<>>
                   THEN JStr(part(parts, 4)) ELSE JNull,
                   JStr(<<user_id>>)>>)
        returned(task_result) ==
            [created |-> task_result.status = "success",
             title |-> IF task_result.status = "success"
                       THEN task_result.body[1].title ELSE JNull,
             priority |-> IF task_result.status = "success"
                          THEN task_result.body[1].priority ELSE JNull,
             tasks |-> task_result.tasks, nextId |-> task_result.nextId,
             llm_calls |-> task_result.llm_calls]
    IN  IF runs
        THEN returned(create_task_from_llm(task_data(Split(query, <<>>)), user_id, llm))
        ELSE [created |-> FALSE, title |-> JNull, priority |-> JNull, tasks |-> tasks,
              nextId |-> nextId, llm_calls |-> 0]

\* get_agent_tools.decompose_task_sync, in the same way
decompose_task_sync(task_text, user_id, llm, runs) ==
    LET returned(task_result) ==
            [created |-> task_result.status = "success",
             title |-> IF task_result.status = "success"
                       THEN task_result.body[1].title ELSE JNull,
             priority |-> IF task_result.status = "success"
                          THEN task_result.body[1].priority ELSE JNull,
             tasks |-> task_result.tasks, nextId |-> task_result.nextId,
             llm_calls |-> task_result.llm_calls]
    IN  IF runs
        THEN returned(process_natural_language_task_internal(task_text, user_id, llm))
        ELSE [created |-> FALSE, title |-> JNull, priority |-> JNull, tasks |-> tasks,
              nextId |-> nextId, llm_calls |-> 0]

\* initialize_agent(..., max_iterations=3)
max_iterations == 3

MaxChatId == 2

MaxRequests == 1

Reqs == 1..MaxRequests

\* db.chat_history.find_one({"user_id": user_id}), the messages of the document
History(user_id) ==
    IF user_id \in DOMAIN chat_history THEN chat_history[user_id] ELSE <<>>

\* the request r with these locals
SetReq(r, locals) ==
    [x \in DOMAIN req \cup {r} |-> IF x = r THEN locals ELSE req[x]]

\* the locals of a chat request: where it is (pc), its inputs, db_chat_history,
\* the agent's iterations and the completion calls made so far, ai_response, the
\* two lists the drain iterates over, the requests the drain has taken up
\* (attempted) and passed to create_task_from_llm or to
\* process_natural_language_task_internal (handed), and the response sent
Locals(pc, user_id, provider, history, status, response) ==
    [pc |-> pc, user_id |-> user_id, provider |-> provider,
     db_chat_history |-> history, iterations |-> 0, llm_calls |-> 0,
     ai_response |-> "", tasks_to_process |-> <<>>, analyzed_tasks |-> <<>>,
     attempted |-> <<>>, handed |-> <<>>, status |-> status, response |-> response]

\* the key test of both providers made on OPENAI_API_KEY
KeyConfigured_OpenAIOnly(selected_provider) == OPENAI_API_KEY

\* "if not OPENAI_API_KEY" / "if not TOGETHER_API_KEY" of the selected provider
KeyConfigured(selected_provider) ==
    IF selected_provider = "openai" THEN OPENAI_API_KEY ELSE TOGETHER_API_KEY

\* chat_with_llm from its entry to agent_chain.ainvoke, for a request of R with a
\* message of Messages.  provider "" is None.
ChatStartOf(R, Messages) ==
    \E r \in R \ DOMAIN req, user_id \in UserIds,
       provider \in {"", "togetherai", "bard"}, message \in Messages :
       LET selected_provider == IF provider = "" THEN "openai" ELSE provider
           answered(status, response) ==
               Locals("done", user_id, selected_provider, <<>>, status, response)
           user_message == [role |-> "user", content |-> message]
       IN  /\ req' = SetReq(r,
                 IF user_id \notin users THEN answered("404", "User not found")
                 ELSE IF selected_provider = "openai" /\ ~KeyConfigured(selected_provider)
                 THEN answered("200", "OpenAI chat functionality is unavailable. Please set up your OPENAI_API_KEY.")
                 ELSE IF selected_provider = "togetherai"
                         /\ ~KeyConfigured(selected_provider)
                 THEN answered("200", "TogetherAI chat functionality is unavailable. Please set up your TOGETHER_API_KEY.")
                 ELSE IF selected_provider \notin {"openai", "togetherai"}
                 THEN answered("200", "Unknown provider: bard. Please use 'openai' or 'togetherai'.")
                 ELSE Locals("agent", user_id, selected_provider,
                             Append(History(user_id), user_message), "", ""))
           /\ UNCHANGED <<OPENAI_API_KEY, TOGETHER_API_KEY, users, tasks, nextId,
                          FEEDBACK_CACHE, now, call, resp, dl, pending_tasks,
                          pending_analyzed_tasks, chat_history>>

\* POST /chat
ChatStart == ChatStartOf(Reqs, {"Plan my party"})

\* what a tool call of the agent leaves in the state
ToolReturned(r, tool, tool_input, t) ==
    /\ tasks' = t.tasks
    /\ nextId' = t.nextId
    /\ req' = [req EXCEPT ![r].iterations = @ + 1, ![r].llm_calls = @ + 1 + t.llm_calls]
    /\ call' = [handler |-> tool, tool_input |-> tool_input, by |-> r,
                iteration |-> req[r].iterations + 1]
    /\ resp' = [handler |-> tool, created |-> t.created, title |-> t.title,
                priority |-> t.priority]
    /\ UNCHANGED <<OPENAI_API_KEY, TOGETHER_API_KEY, users, FEEDBACK_CACHE, now, dl,
                   pending_tasks, pending_analyzed_tasks, chat_history>>

ToolQueries ==
    {S_Plan,
     S_Plan \o <<"|", " ">> \o S_Venue \o <<" ", "|", " ">> \o S_urgent \o <<" ", "|">>,
     S_Plan \o <<" ", "|", "|", "h", "i", "g", "h", "|">> \o FormatDate(2025, 6, 6)}

\* an iteration of the agent that calls the create_task tool
AgentCreateTask ==
    \E r \in DOMAIN req, query \in ToolQueries, runs \in BOOLEAN :
       /\ req[r].pc = "agent"
       /\ req[r].iterations < max_iterations
       /\ nextId <= MaxChatId
       /\ \E llm \in LlmOutcomes(req[r].user_id, {<<" ", "G", "o", " ">>}) :
             \E t \in {create_task_sync(query, req[r].user_id, llm, runs)} :
                ToolReturned(r, "create_task", query, t)

\* an iteration of the agent that calls the decompose_task tool
AgentDecomposeTask ==
    \E r \in DOMAIN req, runs \in BOOLEAN :
       /\ req[r].pc = "agent"
       /\ req[r].iterations < max_iterations
       /\ nextId <= MaxChatId
       /\ \E llm \in LlmOutcomes(req[r].user_id, {Dumps(BaseAnalysis), <<"S", "o">>}) :
             \E t \in {decompose_task_sync(S_Party, req[r].user_id, llm, runs)} :
                ToolReturned(r, "decompose_task", S_Party, t)

\* the end of agent_chain.ainvoke (its output, the executor's stop at
\* max_iterations, or an exception) and chat_with_llm up to the return of
\* db.chat_history.replace_one
AgentFinish ==
    \E r \in DOMAIN req :
       /\ req[r].pc = "agent"
       /\ \E ai_response \in
                IF req[r].iterations < max_iterations
                THEN {"Done.", "I encountered an error while processing your request. Please try again with a simpler question or task."}
                ELSE {"Agent stopped due to iteration limit or time limit."} :
             LET messages == Append(req[r].db_chat_history,
                                    [role |-> "ai", content |-> ai_response])
             IN  /\ chat_history' =
                        [u \in DOMAIN chat_history \cup {req[r].user_id} |->
                            IF u = req[r].user_id THEN messages ELSE chat_history[u]]
                 /\ req' = [req EXCEPT ![r].pc = "drain",
                                       ![r].db_chat_history = messages,
                                       ![r].ai_response = ai_response,
                                       ![r].llm_calls =
                                           IF req[r].iterations < max_iterations
                                           THEN @ + 1 ELSE @]
       /\ UNCHANGED <<OPENAI_API_KEY, TOGETHER_API_KEY, users, tasks, nextId,
                      FEEDBACK_CACHE, now, call, resp, dl, pending_tasks,
                      pending_analyzed_tasks>>

\* d.pop(key) on a dict that has the key: the dict that is left
Pop(o, key) ==
    LET k == CHOOSE i \in 1..Len(o.keys) : o.keys[i] = key
    IN  JObj(SubSeq(o.keys, 1, k - 1) \o SubSeq(o.keys, k + 1, Len(o.keys)),
             SubSeq(o.items, 1, k - 1) \o SubSeq(o.items, k + 1, Len(o.items)))

\* the first copy without the reset of the global list
DrainPending_NoClear ==
    \E r \in DOMAIN req :
       /\ req[r].pc = "drain"
       /\ req' = [req EXCEPT ![r].pc = "tasks", ![r].tasks_to_process = pending_tasks]
       /\ UNCHANGED <<OPENAI_API_KEY, TOGETHER_API_KEY, users, tasks, nextId,
                      FEEDBACK_CACHE, now, call, resp, dl, pending_tasks,
                      pending_analyzed_tasks, chat_history>>

\* process_pending_tasks, first two statements: tasks_to_process =
\* pending_tasks.copy(); pending_tasks = [].  No await lies between them.
DrainPending ==
    \E r \in DOMAIN req :
       /\ req[r].pc = "drain"
       /\ req' = [req EXCEPT ![r].pc = "tasks", ![r].tasks_to_process = pending_tasks]
       /\ pending_tasks' = <<>>
       /\ UNCHANGED <<OPENAI_API_KEY, TOGETHER_API_KEY, users, tasks, nextId,
                      FEEDBACK_CACHE, now, call, resp, dl, pending_analyzed_tasks,
                      chat_history>>

\* one iteration of the first loop.  task_data.pop("user_id") raises KeyError on a
\* request without the key; the except clause logs it and the loop goes on.
CreatePending ==
    \E r \in DOMAIN req :
       /\ req[r].pc = "tasks"
       /\ req[r].tasks_to_process # <<>>
       /\ LET task_data == Head(req[r].tasks_to_process)
              taken == [req EXCEPT ![r].tasks_to_process = Tail(@),
                                   ![r].attempted = Append(@, task_data)]
          IN  IF ~HasKey(task_data, S_user_id)
              THEN /\ req' = taken
                   /\ UNCHANGED <<tasks, nextId>>
              ELSE \E user_id \in {Get(task_data, S_user_id, JNull).s[1]} :
                      \E llm \in LlmOutcomes(user_id, {<<" ", "G", "o", " ">>}) :
                         \E t \in {create_task_from_llm(Pop(task_data, S_user_id),
                                                        user_id, llm)} :
                            /\ req' = [taken EXCEPT ![r].handed = Append(@, task_data),
                                                    ![r].llm_calls = @ + t.llm_calls]
                            /\ tasks' = t.tasks
                            /\ nextId' = t.nextId
       /\ UNCHANGED <<OPENAI_API_KEY, TOGETHER_API_KEY, users, FEEDBACK_CACHE, now,
                      call, resp, dl, pending_tasks, pending_analyzed_tasks,
                      chat_history>>

\* after the first loop: analyzed_tasks = pending_analyzed_tasks.copy();
\* pending_analyzed_tasks = []
DrainAnalyzed ==
    \E r \in DOMAIN req :
       /\ req[r].pc = "tasks"
       /\ req[r].tasks_to_process = <<>>
       /\ req' = [req EXCEPT ![r].pc = "analyzed",
                             ![r].analyzed_tasks = pending_analyzed_tasks]
       /\ pending_analyzed_tasks' = <<>>
       /\ UNCHANGED <<OPENAI_API_KEY, TOGETHER_API_KEY, users, tasks, nextId,
                      FEEDBACK_CACHE, now, call, resp, dl, pending_tasks, chat_history>>

\* one iteration of the second loop: pop("user_id"), pop("text"), then
\* process_natural_language_task_internal
DecomposePending ==
    \E r \in DOMAIN req :
       /\ req[r].pc = "analyzed"
       /\ req[r].analyzed_tasks # <<>>
       /\ LET analyzed_task == Head(req[r].analyzed_tasks)
              taken == [req EXCEPT ![r].analyzed_tasks = Tail(@),
                                   ![r].attempted = Append(@, analyzed_task)]
          IN  IF ~HasKey(analyzed_task, S_user_id) \/ ~HasKey(analyzed_task, S_text)
              THEN /\ req' = taken
                   /\ UNCHANGED <<tasks, nextId>>
              ELSE \E user_id \in {Get(analyzed_task, S_user_id, JNull).s[1]},
                      text \in {Get(analyzed_task, S_text, JNull).s} :
                      \E llm \in LlmOutcomes(user_id, {Dumps(BaseAnalysis), <<"S", "o">>}) :
                         \E t \in {process_natural_language_task_internal(text, user_id,
                                                                          llm)} :
                            /\ req' = [taken EXCEPT
                                          ![r].handed = Append(@, analyzed_task),
                                          ![r].llm_calls = @ + t.llm_calls]
                            /\ tasks' = t.tasks
                            /\ nextId' = t.nextId
       /\ UNCHANGED <<OPENAI_API_KEY, TOGETHER_API_KEY, users, FEEDBACK_CACHE, now,
                      call, resp, dl, pending_tasks, pending_analyzed_tasks,
                      chat_history>>

\* process_pending_tasks returns and chat_with_llm returns {"response": ai_response}
Respond ==
    \E r \in DOMAIN req :
       /\ req[r].pc = "analyzed"
       /\ req[r].analyzed_tasks = <<>>
       /\ req' = [req EXCEPT ![r].pc = "done", ![r].status = "200",
                             ![r].response = req[r].ai_response]
       /\ UNCHANGED <<OPENAI_API_KEY, TOGETHER_API_KEY, users, tasks, nextId,
                      FEEDBACK_CACHE, now, call, resp, dl, pending_tasks,
                      pending_analyzed_tasks, chat_history>>

ChatInit ==
    /\ OPENAI_API_KEY \in BOOLEAN /\ TOGETHER_API_KEY \in BOOLEAN
    /\ users = {"u1"} /\ tasks = <<>> /\ nextId = 1
    /\ FEEDBACK_CACHE = <<>> /\ now = 0
    /\ call = Idle /\ resp = Idle /\ dl = Idle
    /\ NoChat

\* the loops of the drain have nothing to iterate over: nothing in server.py
\* appends to pending_tasks or to pending_analyzed_tasks
ChatNext ==
    \/ ChatStart
    \/ AgentCreateTask
    \/ AgentDecomposeTask
    \/ AgentFinish
    \/ DrainPending
    \/ DrainAnalyzed
    \/ Respond

SpecChat == ChatInit /\ [][ChatNext]_vars

C13_DrainAfterResponse ==
    \A r \in DOMAIN req :
       req[r].pc \in {"tasks", "analyzed"} => req[r].status = "200"

\* C14: a call of the create_task tool appends one request to pending_tasks and
\* returns with no task persisted yet: the store is as it was before the call.
C14_ToolEnqueues ==
    [][(call' # call /\ call'.handler = "create_task")
       => /\ Len(pending_tasks') = Len(pending_tasks) + 1
          /\ tasks' = tasks]_vars

\* C15: every stored task with completed = true has completed = true on each of its
\* subtasks.
C15_CompletedTaskHasCompletedSubtasks ==
    \A i \in 1..Len(tasks) :
       tasks[i].completed
       => \A j \in 1..Len(tasks[i].subtasks) : tasks[i].subtasks[j].completed

\* C16: the priority of every stored task is one of low, medium, high.
C16_PriorityEnumerated ==
    \A i \in 1..Len(tasks) :
       tasks[i].priority \in {JStr(<<"l", "o", "w">>), JStr(S_medium), JStr(S_high)}

(***************************************************************************)
(* One run of process_pending_tasks over given queues.  Nothing in         *)
(* server.py appends to the queues, so their contents are inputs of the    *)
(* run: requests as create_task_sync builds task_data (with its user_id),  *)
(* decomposition requests with user_id and text, and requests that lack a  *)
(* key the loop pops.                                                      *)
(***************************************************************************)
MaxQueue == 2

QueuedTasks ==
    {JObj(<<S_title, S_description, S_priority, S_deadline, S_user_id>>,
          <<JStr(S_Plan), JNull, JStr(S_high), JNull, JStr(<<u>>)>>) : u \in UserIds}
    \cup {JObj(<<S_title>>, <<JStr(S_Book)>>)}

QueuedAnalyzed ==
    {JObj(<<S_user_id, S_text>>, <<JStr(<<"u1">>), JStr(S_Party)>>),
     JObj(<<S_user_id>>, <<JStr(<<"u1">>)>>)}

\* the sequences over a set, up to a length
SeqsUpTo(S, n) == UNION {[1..k -> S] : k \in 0..n}

\* a chat request that has saved its history and is about to run the drain
DrainInit ==
    /\ OPENAI_API_KEY = TRUE /\ TOGETHER_API_KEY = FALSE
    /\ users = {"u1"} /\ tasks = <<>> /\ nextId = 1
    /\ FEEDBACK_CACHE = <<>> /\ now = 0
    /\ resp = Idle /\ dl = Idle
    /\ chat_history = <<>>
    /\ pending_tasks \in SeqsUpTo(QueuedTasks, MaxQueue)
    /\ pending_analyzed_tasks \in SeqsUpTo(QueuedAnalyzed, MaxQueue)
    /\ call = [handler |-> "process_pending_tasks", pending_tasks |-> pending_tasks,
               pending_analyzed_tasks |-> pending_analyzed_tasks]
    /\ req = <<[Locals("drain", "u1", "openai", <<>>, "", "")
                EXCEPT !.ai_response = "Done."]>>

DrainNext ==
    \/ DrainPending
    \/ CreatePending
    \/ DrainAnalyzed
    \/ DecomposePending
    \/ Respond

SpecDrain == DrainInit /\ [][DrainNext]_vars

\* the request carries the keys its loop pops
Poppable(request) ==
    HasKey(request, S_user_id) /\ (HasKey(request, S_title) \/ HasKey(request, S_text))

\* C17: a run of process_pending_tasks takes up the requests that were in
\* pending_tasks and then those that were in pending_analyzed_tasks, each once and
\* in queue order, and passes each to its materializer; a request whose handling
\* fails is dropped and the next one is taken up; from its copy on, the run leaves
\* the queue empty, and at its end it has taken up every request.
C17_DrainsEachOnce ==
    LET r == req[1]
        queued == call.pending_tasks \o call.pending_analyzed_tasks
        waiting == r.tasks_to_process
                   \o (IF r.pc \in {"drain", "tasks"} THEN pending_analyzed_tasks
                       ELSE r.analyzed_tasks)
    IN  /\ r.pc = "drain" => pending_tasks = call.pending_tasks /\ r.attempted = <<>>
        /\ r.pc # "drain" => pending_tasks = <<>> /\ r.attempted \o waiting = queued
        /\ r.pc \in {"analyzed", "done"} => pending_analyzed_tasks = <<>>
        /\ r.handed = SelectSeq(r.attempted, Poppable)
        /\ r.pc = "done" => r.attempted = queued /\ r.status = "200"

\* a run at its end that dropped a request without user_id and created a task for
\* the request queued behind it
C17_Witness ==
    /\ req[1].pc = "done"
    /\ Len(call.pending_tasks) = 2
    /\ ~Poppable(call.pending_tasks[1])
    /\ Len(call.pending_analyzed_tasks) = 2
    /\ Len(req[1].handed) = 3
    /\ Len(tasks) = 2

(***************************************************************************)
(* Two chat requests running process_pending_tasks while requests are      *)
(* appended.  server.py has no statement that appends; the appends below   *)
(* are the ones spec.md describes for the tools (a list.append made        *)
(* between two awaits of the event loop), each with a title or text of its *)
(* own.                                                                    *)
(***************************************************************************)
MaxAppends == 3

\* spec.md: the create_task tool enqueues a task-creation request into
\* pending_tasks, the decompose_task tool a decomposition request into
\* pending_analyzed_tasks
Enqueue ==
    /\ Len(call.appended) < MaxAppends
    /\ \E to_tasks \in BOOLEAN :
          LET n == Str(Len(call.appended) + 1)
              request == IF to_tasks
                         THEN JObj(<<S_title, S_description, S_priority, S_deadline,
                                     S_user_id>>,
                                   <<JStr(n), JNull, JStr(S_medium), JNull,
                                     JStr(<<"u1">>)>>)
                         ELSE JObj(<<S_user_id, S_text>>, <<JStr(<<"u1">>), JStr(n)>>)
          IN  /\ pending_tasks' =
                    IF to_tasks THEN Append(pending_tasks, request) ELSE pending_tasks
              /\ pending_analyzed_tasks' =
                    IF to_tasks THEN pending_analyzed_tasks
                    ELSE Append(pending_analyzed_tasks, request)
              /\ call' = [call EXCEPT !.appended = Append(@, request)]
    /\ UNCHANGED <<OPENAI_API_KEY, TOGETHER_API_KEY, users, tasks, nextId,
                   FEEDBACK_CACHE, now, resp, dl, chat_history, req>>

RaceInit ==
    /\ OPENAI_API_KEY = FALSE /\ TOGETHER_API_KEY = TRUE
    /\ users = {"u1"} /\ tasks = <<>> /\ nextId = 1
    /\ FEEDBACK_CACHE = <<>> /\ now = 0
    /\ resp = Idle /\ dl = Idle
    /\ chat_history = <<>>
    /\ pending_tasks = <<>> /\ pending_analyzed_tasks = <<>>
    /\ call = [handler |-> "process_pending_tasks", appended |-> <<>>]
    /\ req = [r \in 1..2 |-> [Locals("drain", "u1", "togetherai", <<>>, "", "")
                              EXCEPT !.ai_response = "Done."]]

RaceNext == Enqueue \/ DrainNext

SpecRace == RaceInit /\ [][RaceNext]_vars

\* how many times x occurs in s
Occurrences(s, x) == Cardinality({i \in 1..Len(s) : s[i] = x})

\* every appended request is in one place: still queued, in the list one run
\* iterates over, or taken up by one run; none is in two places or in none
AppendedOnceOnly ==
    \A k \in 1..Len(call.appended) :
       LET x == call.appended[k]
           in(r) == Occurrences(req[r].tasks_to_process, x)
                    + Occurrences(req[r].analyzed_tasks, x)
                    + Occurrences(req[r].attempted, x)
       IN  Occurrences(pending_tasks, x) + Occurrences(pending_analyzed_tasks, x)
           + in(1) + in(2) = 1

(***************************************************************************)
(* The subtasks of a decomposed task against the LLM's subtasks array.     *)
(***************************************************************************)
\* a decomposition that stored a task from an analysis whose subtasks are an array
Decomposed ==
    /\ call.handler \in {"process_task", "internal"}
    /\ resp.status \in {"200", "success"}
    /\ resp.analysis.k = "obj"
    /\ Get(resp.analysis, S_subtasks, JArr(<<>>)).k = "arr"

\* the array the subtasks were made from
SourceItems == Get(resp.analysis, S_subtasks, JArr(<<>>)).items

\* the description an array element gives its subtask
ItemDescription(item) ==
    IF item.k = "obj" THEN Get(item, S_description, JStr(<<>>)) ELSE JStr(PyStr(item))

\* the element can be turned into a Subtask on the path taken
Convertible(item) ==
    IF call.handler = "process_task" THEN SubtaskItemOk(item)
    ELSE IsStr(ItemDescription(item))

\* C19: every subtask of a decomposed task has as order the zero-based position of
\* the array element it was made from, whatever order field the element carries;
\* the subtasks are in array order, one for each element that can be turned into a
\* Subtask, so on /process-task an element that cannot is skipped and the others
\* keep their positions.
C19_OrderIsArrayPosition ==
    Decomposed
    => LET subtasks == resp.body[1].subtasks
       IN  /\ \A k \in 1..Len(subtasks) :
                 /\ subtasks[k].order + 1 \in 1..Len(SourceItems)
                 /\ Convertible(SourceItems[subtasks[k].order + 1])
                 /\ subtasks[k].description
                       = ItemDescription(SourceItems[subtasks[k].order + 1])
           /\ \A k \in 1..(Len(subtasks) - 1) : subtasks[k].order < subtasks[k + 1].order
           /\ {subtasks[k].order + 1 : k \in 1..Len(subtasks)}
                 = {i \in 1..Len(SourceItems) : Convertible(SourceItems[i])}
           /\ call.handler = "internal" => Len(subtasks) = Len(SourceItems)

\* /process-task on an array whose first element has a null description and whose
\* second carries "order": 7: two subtasks are stored, with order 1 and 2
C19_Witness ==
    /\ Decomposed
    /\ call.handler = "process_task"
    /\ Len(SourceItems) = 3
    /\ ~Convertible(SourceItems[1])
    /\ SourceItems[2] = OrderedSubtask
    /\ Len(tasks) = 1
    /\ Len(tasks[1].subtasks) = 2
    /\ tasks[1].subtasks[1].order = 1
    /\ tasks[1].subtasks[2].order = 2

\* C20: in a decomposed task, every element of the subtasks array that is a plain
\* string has exactly one subtask, at the element's position, whose description is
\* that string, whose title is the description and which has no deadline.
C20_StringElementIsDescriptionOnly ==
    Decomposed
    => LET subtasks == resp.body[1].subtasks
           made(i) == {k \in 1..Len(subtasks) : subtasks[k].order = i - 1}
       IN  \A i \in 1..Len(SourceItems) :
              SourceItems[i].k = "str"
              => /\ Cardinality(made(i)) = 1
                 /\ \A k \in made(i) :
                       /\ subtasks[k].description = SourceItems[i]
                       /\ subtasks[k].title = subtasks[k].description
                       /\ subtasks[k].deadline = NoDeadline

\* the internal path stored a task whose second subtask comes from the string
\* "Invite" that follows an object in the array
C20_Witness ==
    /\ Decomposed
    /\ call.handler = "internal"
    /\ Len(SourceItems) = 2
    /\ SourceItems[1].k = "obj"
    /\ SourceItems[2] = JStr(S_Invite)
    /\ Len(tasks) = 1
    /\ tasks[1].subtasks[2].title = JStr(S_Invite)
    /\ tasks[1].subtasks[2].description = JStr(S_Invite)
    /\ tasks[1].subtasks[2].deadline = NoDeadline

(***************************************************************************)
(* Chat turns of one user, one after the other and overlapping: each turn  *)
(* reads the stored history, awaits the agent and replaces the stored      *)
(* history.  The agent calls no tool here.                                 *)
(***************************************************************************)
MaxTurns == 2

\* a stored history of one earlier exchange
EarlierExchange ==
    <<[role |-> "user", content |-> "Hello"], [role |-> "ai", content |-> "Hi."]>>

TurnInit ==
    /\ OPENAI_API_KEY = TRUE /\ TOGETHER_API_KEY = FALSE
    /\ users = {"u1"} /\ tasks = <<>> /\ nextId = 1
    /\ FEEDBACK_CACHE = <<>> /\ now = 0
    /\ call = Idle /\ resp = Idle /\ dl = Idle
    /\ pending_tasks = <<>> /\ pending_analyzed_tasks = <<>>
    /\ chat_history \in {<<>>, [u \in {"u1"} |-> EarlierExchange]}
    /\ req = <<>>

\* POST /chat with one of two messages
TurnStart == ChatStartOf(1..MaxTurns, {"Plan my party", "Thanks"})

TurnNext ==
    \/ TurnStart
    \/ AgentFinish
    \/ DrainPending
    \/ DrainAnalyzed
    \/ Respond

SpecTurns == TurnInit /\ [][TurnNext]_vars

\* C21: the step in which a turn that reached the agent saves the history leaves
\* the user's stored history as it was before the step, followed by the turn's
\* user message and by the reply, also when the reply is the fixed error text.
C21_TurnAppendsTwoMessages ==
    [][\A r \in DOMAIN req :
          (req[r].pc = "agent" /\ req'[r].pc = "drain")
          => LET user_id == req[r].user_id
                 before == History(user_id)
                 after == chat_history'[user_id]
             IN  /\ Len(after) = Len(before) + 2
                 /\ SubSeq(after, 1, Len(before)) = before
                 /\ after[Len(before) + 1] =
                       req[r].db_chat_history[Len(req[r].db_chat_history)]
                 /\ after[Len(before) + 1].role = "user"
                 /\ after[Len(before) + 2] =
                       [role |-> "ai", content |-> req'[r].ai_response]]_vars

\* the N of "the N most recent messages"; server.py has no such number
ContextWindow == 2

\* the last n elements of s, all of s when it has fewer
Recent(s, n) == SubSeq(s, IF Len(s) > n THEN Len(s) - n + 1 ELSE 1, Len(s))

\* C22: the context a turn hands to the agent (chat_memory) is the ContextWindow
\* most recent messages of the stored history, followed by the turn's user message.
C22_ContextIsRecentWindow ==
    [][\A r \in DOMAIN req' \ DOMAIN req :
          req'[r].pc = "agent"
          => LET context == req'[r].db_chat_history
             IN  SubSeq(context, 1, Len(context) - 1)
                    = Recent(History(req'[r].user_id), ContextWindow)]_vars

\* the turns of user_id that have saved the history
Saved(user_id) ==
    {r \in DOMAIN req : /\ req[r].user_id = user_id
                        /\ req[r].pc \in {"drain", "tasks", "analyzed", "done"}
                        /\ req[r].db_chat_history # <<>>}

\* C28: the stored history of a user holds the user message and the reply of every
\* turn that has saved it, two messages for each such turn.
C28_OverlappingTurnsBothPersisted ==
    \A user_id \in users :
       /\ Len(History(user_id)) >= 2 * Cardinality(Saved(user_id))
       /\ \A r \in Saved(user_id) :
             \E i \in 1..(Len(History(user_id)) - 1) :
                /\ History(user_id)[i]
                      = req[r].db_chat_history[Len(req[r].db_chat_history) - 1]
                /\ History(user_id)[i + 1] = [role |-> "ai", content |-> req[r].ai_response]

\* the reply of the completion call is parsed neither directly nor through its
\* brace slice
ReplyUnparsed(generated_text) ==
    /\ ~Loads(generated_text).ok
    /\ LET json_start == Find(generated_text, "{")
           json_end == RFind(generated_text, "}") + 1
       IN  ~(json_start >= 0 /\ json_end > json_start
             /\ Loads(Slice(generated_text, json_start, json_end)).ok)

\* a call of analyze_statistics_with_llm that missed the cache and failed: no key,
\* the completion call raised, or its reply could not be parsed
Degraded ==
    /\ Analyzed
    /\ ~resp.hit
    /\ \/ ~OPENAI_API_KEY
       \/ call.llm.kind = "raise"
       \/ call.llm.kind = "reply" /\ ReplyUnparsed(call.llm.text)

\* C30: a call that failed returns one of the fixed degraded payloads and has stored
\* it under the fingerprint with the time of the call, as a successful one is; a
\* call answered from the cache returns the stored payload, whatever it is, makes
\* no completion call and leaves the entry alone.
C30_DegradedPayloadIsCached ==
    /\ Degraded
       => /\ resp.ret \in {service_unavailable_feedback, service_error_feedback_parse,
                           service_error_feedback_request}
          /\ CacheKey(call.stats) \in DOMAIN FEEDBACK_CACHE
          /\ FEEDBACK_CACHE[CacheKey(call.stats)]
                = [feedback |-> resp.ret, timestamp |-> call.at]
    /\ (Analyzed /\ resp.hit)
       => /\ resp.llm_calls = 0
          /\ call.entry_before # <<>>
          /\ resp.ret = call.entry_before[1].feedback
          /\ FEEDBACK_CACHE[CacheKey(call.stats)] = call.entry_before[1]

(***************************************************************************)
(* Feedback requests of two users whose counters are equal or differ, with *)
(* time passing between the requests.                                      *)
(***************************************************************************)
\* a store in which u1 and u2 have the same four counters (and tasks of different
\* priority), and one in which they have not
SharedStores ==
    LET plan(id, user_id, priority) ==
            NewTask(id, user_id, JStr(S_Plan), JNull, NoDeadline, JStr(priority), JNull)
        party(id, user_id) ==
            [NewTask(id, user_id, JStr(S_Party), JNull, NoDeadline, JStr(S_high), JNull)
             EXCEPT !.subtasks = <<NewSubtask(id + 1, id, JStr(S_Book), JStr(S_Venue),
                                              NoDeadline, 0)>>]
    IN  {<<plan(1, "u1", S_medium), plan(2, "u2", S_high)>>,
         <<plan(1, "u1", S_medium), party(2, "u2")>>}

SharedInit ==
    /\ OPENAI_API_KEY = TRUE /\ TOGETHER_API_KEY = FALSE
    /\ users = {"u1", "u2"} /\ tasks \in SharedStores /\ nextId = 4
    /\ FEEDBACK_CACHE = EmptyCache /\ now = 0
    /\ NoChat
    /\ call = [handler |-> "none"] /\ resp = Idle /\ dl = Idle

SharedNext == GetUserStatisticsFeedback \/ Tick

SpecShared == SharedInit /\ [][SharedNext]_vars

\* the four counters of a user
Counters(user_id) ==
    LET stats == get_user_statistics(user_id)
    IN  <<stats.total_tasks, stats.completed_tasks, stats.total_subtasks,
          stats.completed_subtasks>>

\* C23: the cache key is a function of the four counters alone; when the feedback
\* request of a user A has left its payload in the cache and the next feedback
\* request, within the cache duration, is of another user B with the same four
\* counters, B is answered with A's payload, no completion call is made and the
\* cache is left as it was.
C23_SharedAcrossUsers ==
    [][\A A, B \in users :
          (/\ A # B
           /\ Counters(A) = Counters(B)
           /\ call.handler = "get_user_statistics_feedback" /\ call.user_id = A
           /\ CacheKey(get_user_statistics(A)) \in DOMAIN FEEDBACK_CACHE
           /\ FEEDBACK_CACHE[CacheKey(get_user_statistics(A))].feedback = resp.body
           /\ call' # call /\ call'.user_id = B
           /\ now - FEEDBACK_CACHE[CacheKey(get_user_statistics(A))].timestamp
                 < CACHE_DURATION)
          => /\ CacheKey(get_user_statistics(B)) = CacheKey(get_user_statistics(A))
             /\ resp'.body = resp.body
             /\ resp'.llm_calls = 0
             /\ FEEDBACK_CACHE' = FEEDBACK_CACHE]_vars

\* u2 asks 1799 s or more after u1, whose counters it shares, and is answered from
\* the cache with the payload generated for u1
C23_Witness ==
    /\ call.handler = "get_user_statistics_feedback"
    /\ call.user_id = "u2" /\ call.after = "u1"
    /\ Counters("u1") = Counters("u2")
    /\ call.at >= 1799
    /\ resp.llm_calls = 0
    /\ resp.status = "200"
    /\ CacheKey(get_user_statistics("u2")) \in DOMAIN FEEDBACK_CACHE
    /\ FEEDBACK_CACHE[CacheKey(get_user_statistics("u2"))]
          = [feedback |-> resp.body, timestamp |-> 0]

(***************************************************************************)
(* The two tool functions called by themselves, in each of the three       *)
(* branches of their event-loop code.  A call is one step: the function is *)
(* synchronous and returns a string.                                       *)
(***************************************************************************)
\* what asyncio.get_event_loop() finds in the calling thread: a loop that is
\* running, a loop that is not running, or no loop (RuntimeError)
EventLoops == {"running", "not_running", "no_loop"}

\* whether the coroutine is run to its end: run_until_complete and asyncio.run do
\* so; with a running loop it is submitted by run_coroutine_threadsafe to the loop
\* made by asyncio.new_event_loop(), which no thread runs, and future.result(30) /
\* future.result(60) raises TimeoutError
RunsToEnd_Always(loop) == TRUE

RunsToEnd(loop) == loop # "running"

ToolInit ==
    /\ OPENAI_API_KEY \in BOOLEAN /\ TOGETHER_API_KEY = FALSE
    /\ users = {"u1"} /\ tasks = <<>> /\ nextId = 1
    /\ FEEDBACK_CACHE = <<>> /\ now = 0
    /\ call = Idle /\ resp = Idle /\ dl = Idle
    /\ NoChat

\* what a call of a tool function leaves in the state: the string returned is the
\* success acknowledgment ("ack") or starts with "Error" ("error")
ToolCalled(tool, user_id, loop, t) ==
    /\ tasks' = t.tasks
    /\ nextId' = t.nextId
    /\ call' = [handler |-> tool, user_id |-> user_id, loop |-> loop,
                tasks_before |-> tasks]
    /\ resp' = [handler |-> tool, returned |-> IF t.created THEN "ack" ELSE "error",
                title |-> t.title]
    /\ UNCHANGED <<chat_state, OPENAI_API_KEY, TOGETHER_API_KEY, users, FEEDBACK_CACHE,
                   now, dl>>

\* create_task_sync(query) of get_agent_tools(user_id)
ToolCreateTask ==
    \E user_id \in UserIds, query \in ToolQueries, loop \in EventLoops :
       /\ nextId <= MaxChatId
       /\ \E llm \in LlmOutcomes(user_id, {<<" ", "G", "o", " ">>}) :
             \E t \in {create_task_sync(query, user_id, llm, RunsToEnd(loop))} :
                ToolCalled("create_task", user_id, loop, t)

\* decompose_task_sync(task_text) of get_agent_tools(user_id)
ToolDecomposeTask ==
    \E user_id \in UserIds, loop \in EventLoops :
       /\ nextId <= MaxChatId
       /\ \E llm \in LlmOutcomes(user_id, {Dumps(BaseAnalysis), <<"S", "o">>}) :
             \E t \in {decompose_task_sync(S_Party, user_id, llm, RunsToEnd(loop))} :
                ToolCalled("decompose_task", user_id, loop, t)

ToolNext == ToolCreateTask \/ ToolDecomposeTask

SpecTools == ToolInit /\ [][ToolNext]_vars

\* a tool function has returned
ToolReturnedString == call.handler \in {"create_task", "decompose_task"}

\* C24: a tool call always ends with a returned string; when the cross-thread wait
\* timed out or the user is missing the string is an error string, and whenever the
\* string is not the success acknowledgment no task has been stored.
C24_FailureIsErrorString ==
    ToolReturnedString
    => /\ resp.returned \in {"ack", "error"}
       /\ (call.loop = "running" \/ call.user_id \notin users)
          => resp.returned = "error"
       /\ resp.returned = "error" => tasks = call.tasks_before
       /\ resp.returned = "ack" => Len(tasks) = Len(call.tasks_before) + 1

\* decompose_task called from the thread of the running loop, after a task was
\* stored by an earlier call: the wait timed out and an error string was returned
C24_Witness ==
    /\ call.handler = "decompose_task"
    /\ call.user_id \in users
    /\ call.loop = "running"
    /\ resp.returned = "error"
    /\ Len(tasks) = 1

\* C25: a tool call for a stored user has stored one task and returned the success
\* acknowledgment, whichever of the three event-loop branches it took.
C25_EveryBranchPersists ==
    (ToolReturnedString /\ call.user_id \in users)
    => /\ resp.returned = "ack"
       /\ Len(tasks) = Len(call.tasks_before) + 1

\* C26: a step of update_subtask with a non-empty body, answered 200, leaves the
\* task with the subtask's fields set as the body says, the other subtasks as they
\* were, and completed equal to the conjunction of the completed flags of all its
\* subtasks, whatever completed was before the step.
C26_TaskFlagIsConjunction ==
    [][(/\ call'.handler = "update_subtask"
        /\ resp'.status = "200"
        /\ DOMAIN call'.update_data # {})
       => LET before == tasks[FindTask(tasks, call'.task_id)]
              after == tasks'[FindTask(tasks', call'.task_id)]
              j == FindTask(before.subtasks, call'.subtask_id)
          IN  /\ Len(after.subtasks) = Len(before.subtasks)
              /\ \A k \in 1..Len(before.subtasks) :
                    IF k = j
                    THEN \A f \in DOMAIN before.subtasks[k] :
                            after.subtasks[k][f] =
                               IF f \in DOMAIN call'.update_data
                               THEN call'.update_data[f] ELSE before.subtasks[k][f]
                    ELSE after.subtasks[k] = before.subtasks[k]
              /\ after.completed
                    = (\A k \in 1..Len(after.subtasks) : after.subtasks[k].completed)
              /\ resp'.body = <<after>>]_vars

\* update_subtask has set the title of one subtask of a task that has another,
\* open subtask: the task is stored as not completed
C26_Witness ==
    /\ call.handler = "update_subtask"
    /\ resp.status = "200"
    /\ DOMAIN call.update_data = {"title"}
    /\ LET task == tasks[FindTask(tasks, call.task_id)]
       IN  /\ Len(task.subtasks) = 2
           /\ task.subtasks[1].completed /\ ~task.subtasks[2].completed
           /\ task.subtasks[1].id = call.subtask_id
           /\ ~task.completed

(***************************************************************************)
(* Subtask operations on one task that overlap: each handler advances from *)
(* one await of the store to the next (find_one, update_one, find_one).    *)
(* req holds the operations in flight.                                     *)
(***************************************************************************)
MaxOps == 2

\* the stored task the operations work on: two open subtasks
OverlapInit ==
    /\ OPENAI_API_KEY = FALSE /\ TOGETHER_API_KEY = FALSE
    /\ users = {"u1"}
    /\ tasks = <<[NewTask(1, "u1", JStr(S_Plan), JNull, NoDeadline, JStr(S_medium), JNull)
                  EXCEPT !.subtasks =
                     <<NewSubtask(2, 1, JStr(S_Book), JStr(S_Venue), NoDeadline, 0),
                       NewSubtask(3, 1, JStr(S_Invite), JStr(S_Party), NoDeadline, 1)>>]>>
    /\ nextId = 4
    /\ FEEDBACK_CACHE = <<>> /\ now = 0
    /\ call = Idle /\ resp = Idle /\ dl = Idle
    /\ pending_tasks = <<>> /\ pending_analyzed_tasks = <<>> /\ chat_history = <<>>
    /\ req = <<>>

\* the first await of update_subtask, create_subtask and delete_subtask:
\* task = await db.tasks.find_one({"id": task_id}), and for update_subtask the
\* search of the subtask in the task read.  The new Subtask of create_subtask gets
\* its identifier here.
SubtaskOpRead ==
    \E r \in (1..MaxOps) \ DOMAIN req, kind \in {"update", "create", "delete"},
       subtask_id \in {2, 3} :
       LET task == tasks[FindTask(tasks, 1)]
           started(pc, status) ==
               [kind |-> kind, pc |-> pc, status |-> status, task_id |-> 1,
                subtask_id |-> IF kind = "create" THEN nextId ELSE subtask_id,
                update_data |-> IF kind = "update"
                                THEN SubtaskUpdateData({"completed"}, TRUE) ELSE <<>>,
                task |-> task]
       IN  /\ req' = SetReq(r, IF kind = "update"
                                  /\ FindTask(task.subtasks, subtask_id) = 0
                               THEN started("done", "404")
                               ELSE started("write", ""))
           /\ nextId' = IF kind = "create" THEN nextId + 1 ELSE nextId
           /\ UNCHANGED <<OPENAI_API_KEY, TOGETHER_API_KEY, users, tasks, FEEDBACK_CACHE,
                          now, call, resp, dl, pending_tasks, pending_analyzed_tasks,
                          chat_history>>

\* the second await, db.tasks.update_one: update_subtask sets the whole subtasks
\* array of the task it read, with its change, and completed; create_subtask pushes
\* its subtask onto the stored array; delete_subtask pulls the subtask from the
\* stored array
SubtaskOpWrite ==
    \E r \in DOMAIN req :
       /\ req[r].pc = "write"
       /\ LET op == req[r]
              stored == tasks[FindTask(tasks, op.task_id)]
              subtask_index == FindTask(op.task.subtasks, op.subtask_id)
              subtasks == [j \in 1..Len(op.task.subtasks) |->
                              IF j = subtask_index
                              THEN [k \in DOMAIN op.task.subtasks[j] |->
                                       IF k \in DOMAIN op.update_data
                                       THEN op.update_data[k]
                                       ELSE op.task.subtasks[j][k]]
                              ELSE op.task.subtasks[j]]
              all_completed == \A j \in 1..Len(subtasks) : subtasks[j].completed
              subtask == NewSubtask(op.subtask_id, op.task_id, JStr(S_Book),
                                    JStr(S_Venue), NoDeadline, Len(op.task.subtasks))
              Keep(st) == st.id # op.subtask_id
          IN  tasks' =
                 CASE op.kind = "update" ->
                         SetFields(tasks, op.task_id,
                                   [subtasks |-> subtasks, completed |-> all_completed])
                   [] op.kind = "create" ->
                         SetFields(tasks, op.task_id,
                                   [subtasks |-> Append(stored.subtasks, subtask)])
                   [] op.kind = "delete" ->
                         SetFields(tasks, op.task_id,
                                   [subtasks |-> SelectSeq(stored.subtasks, Keep)])
       /\ req' = [req EXCEPT ![r].pc = "read"]
       /\ UNCHANGED <<OPENAI_API_KEY, TOGETHER_API_KEY, users, nextId, FEEDBACK_CACHE,
                      now, call, resp, dl, pending_tasks, pending_analyzed_tasks,
                      chat_history>>

\* the third await: updated_task = await db.tasks.find_one(...), returned as Task
SubtaskOpReturn ==
    \E r \in DOMAIN req :
       /\ req[r].pc = "read"
       /\ req' = [req EXCEPT ![r].pc = "done", ![r].status = "200",
                             ![r].task = tasks[FindTask(tasks, req[r].task_id)]]
       /\ UNCHANGED <<OPENAI_API_KEY, TOGETHER_API_KEY, users, tasks, nextId,
                      FEEDBACK_CACHE, now, call, resp, dl, pending_tasks,
                      pending_analyzed_tasks, chat_history>>

OverlapNext == SubtaskOpRead \/ SubtaskOpWrite \/ SubtaskOpReturn

SpecOverlap == OverlapInit /\ [][OverlapNext]_vars

\* the operations answered 200
Finished == {r \in DOMAIN req : req[r].pc = "done" /\ req[r].status = "200"}

\* C27: once two subtask operations on different subtasks of the task have both
\* finished (two update_subtask calls, or an update_subtask with a create_subtask
\* or a delete_subtask), the stored task shows the effect of each: the updated
\* subtask has the fields its update set, the created subtask is there, the deleted
\* one is not.
C27_BothEffectsStored ==
    (/\ Cardinality(Finished) = 2
     /\ \E r \in Finished : req[r].kind = "update"
     /\ \A r, q \in Finished : r # q => req[r].subtask_id # req[q].subtask_id)
    => LET subtasks == tasks[FindTask(tasks, 1)].subtasks
       IN  \A r \in Finished :
              LET j == FindTask(subtasks, req[r].subtask_id)
              IN  CASE req[r].kind = "update" ->
                          /\ j # 0
                          /\ \A f \in DOMAIN req[r].update_data :
                                subtasks[j][f] = req[r].update_data[f]
                    [] req[r].kind = "create" -> j # 0
                    [] req[r].kind = "delete" -> j = 0

\* the fields of a stored Task that the two decomposition paths are compared in
Compared(task) ==
    [title |-> task.title, description |-> task.description, deadline |-> task.deadline,
     priority |-> task.priority, emotional_support |-> task.emotional_support,
     subtasks |-> [j \in 1..Len(task.subtasks) |->
                      [title |-> task.subtasks[j].title,
                       description |-> task.subtasks[j].description,
                       deadline |-> task.subtasks[j].deadline,
                       order |-> task.subtasks[j].order]]]

\* C29: when /process-task has stored a Task made from an analysis object, the chat
\* decompose path given the same user, text and completion outcome, if it stores a
\* Task, has the same analysis object and stores a Task equal to it in title,
\* description, deadline, priority, emotional_support and in the title,
\* description, deadline and order of every subtask; and the other way round.
C29_PathsAgree ==
    /\ (call.handler = "process_task" /\ resp.status = "200" /\ resp.analyzed)
       => \A other \in {process_natural_language_task_internal(call.text, call.user_id,
                                                               call.llm)} :
             (other.status = "success" /\ other.analyzed)
             => /\ other.analysis = resp.analysis
                /\ Compared(other.body[1]) = Compared(resp.body[1])
    /\ (call.handler = "internal" /\ resp.status = "success" /\ resp.analyzed)
       => \A other \in {process_natural_language_task([text |-> call.text,
                                                        user_id |-> call.user_id],
                                                       call.llm)} :
             (other.status = "200" /\ other.analyzed)
             => /\ other.analysis = resp.analysis
                /\ Compared(other.body[1]) = Compared(resp.body[1])

====
